---------------------------- MODULE Spec2Model ----------------------------
(***************************************************************************)
(* A model of pristinarr's run engine: the bounded run history             *)
(* (app/runner.py), one run of run_application against one Starr service   *)
(* (app/runner.py, app/starr/client.py), the configuration validation it   *)
(* starts with (app/config.py), the notification dispatch it ends with,    *)
(* run_all_applications' loop over the sections, the client, the filter,  *)
(* the selection and the tag lookup on their own, and the two triggers of  *)
(* a run (app/scheduler.py, app/routes/api.py), with the run history they  *)
(* both append to, and the scheduler's configuration and status.           *)
(*                                                                         *)
(* The media service is the environment: its tag list and its library are  *)
(* state variables that only the client's calls change.  Every remote call *)
(* may fail (non-2xx status or transport error); a failed call changes     *)
(* nothing on the service.  Timestamps of run records are left out.        *)
(***************************************************************************)
EXTENDS Integers, Sequences, FiniteSets, TLC

VARIABLES
    tags,               \* service: the tag list, in list order: [id, label]
    media,              \* service: the library, in list order
    config,             \* the application's section of the configuration file
    run_history,        \* runner._run_history
    n_appends,          \* how many times add_run_history has been called
    pc,                 \* where the run of run_application stands
    dry_run,            \* run_application's argument
    tag_id,             \* run_application's locals ...
    ignore_tag_id,
    quality_profile_id,
    all_media,
    filtered_media,
    media_to_search,
    pass,               \* 1: first filter pass, 2: the pass after the untag
    search_i,           \* search_media: the commands posted so far
    calls,              \* what this run has called so far, in order
    result,             \* what the run returned or raised
    media_at_start,     \* the library as it was when the run started
    history_view,       \* the last value get_run_history returned
    view_limit,         \* ... and the limit it was called with
    self_app_type,      \* the StarrClient's app_type ("" before it is built)
    media_with_tag,     \* run_application's local: the probe filter's result
    sections,           \* config.sections(): the file's sections, in order
    section_i,          \* run_all_applications: sections already looped over
    all_pc,             \* where run_all_applications stands
    all_dry_run,        \* run_all_applications' argument
    total_searched,     \* run_all_applications' locals ...
    all_items,
    results,
    in_flight,          \* the runs in progress, by what triggered them
    searched,           \* the search commands the service has received
    jobs,               \* the scheduler's jobs: [id, interval_hours]
    last_configured,    \* the arguments of the last configure_scheduler call
    n_configured,       \* how many times configure_scheduler has been called
    _last_run_success,  \* scheduler._last_run_success
    scheduler_status    \* the last value get_scheduler_status returned

vars == << tags, media, config, run_history, n_appends, pc, dry_run, tag_id,
           ignore_tag_id,
           quality_profile_id, all_media, filtered_media, media_to_search, pass,
           search_i, calls, result, media_at_start, history_view, view_limit,
           self_app_type, media_with_tag, sections, section_i, all_pc,
           all_dry_run, total_searched, all_items, results, in_flight,
           searched, jobs, last_configured, n_configured, _last_run_success,
           scheduler_status >>

(***************************************************************************)
(* Bounds of the model.                                                    *)
(***************************************************************************)
NItems == 2
MaxRuns == 2
MaxAppends == 105
MaxSections == 3
MaxTags == 3
MaxTitles == 22
MaxConfigured == 4

(***************************************************************************)
(* Program constants.                                                      *)
(***************************************************************************)
HistoryCap == 100
ApiKeyLength == 32
TitleLimit == 20
None == 0

Min(a, b) == IF a < b THEN a ELSE b
Max(a, b) == IF a < b THEN b ELSE a

\* str.lower() on the strings the model uses.
Lower(s) ==
    CASE s = "Done" -> "done"
      [] s = "DONE" -> "done"
      [] s = "Released" -> "released"
      [] s = "HD" -> "hd"
      [] s = "SD" -> "sd"
      [] s = "4K" -> "4k"
      [] s = "Max" -> "max"
      [] s = "MAX" -> "max"
      [] s = "True" -> "true"
      [] s = "False" -> "false"
      [] s = "Radarr" -> "radarr"
      [] s = "Sonarr" -> "sonarr"
      [] s = "Lidarr" -> "lidarr"
      [] s = "Readarr" -> "readarr"
      [] s = "Plex" -> "plex"
      [] OTHER -> s

Reverse(s) == [i \in 1..Len(s) |-> s[Len(s) + 1 - i]]

Range(s) == {s[i] : i \in 1..Len(s)}

(***************************************************************************)
(* The run history.                                                        *)
(***************************************************************************)

\* list[start:] with Python's index normalisation: a negative start counts
\* from the end and is clamped to 0, a start past the end gives [].
SliceFrom(list, start) ==
    LET n == Len(list)
        from == IF start < 0 THEN Max(n + start, 0) ELSE Min(start, n)
    IN  SubSeq(list, from + 1, n)

get_run_history(limit) == Reverse(SliceFrom(run_history, 0 - limit))

RunRecord(application, success, searched_count, message) ==
    [application |-> application, success |-> success,
     searched_count |-> searched_count, message |-> message]

add_run_history_nocap(history, application, success, searched_count, message) ==
    Append(history, RunRecord(application, success, searched_count, message))

add_run_history(history, application, success, searched_count, message) ==
    LET appended ==
            Append(history, RunRecord(application, success, searched_count, message))
    IN  IF Len(appended) > HistoryCap THEN Tail(appended) ELSE appended


(***************************************************************************)
(* Configuration (app/config.py).  A section is a record of the keys the   *)
(* run reads; an absent optional key is the empty string, which the code   *)
(* treats like None (both are falsy).                                      *)
(***************************************************************************)

\* The first of radarr, sonarr, lidarr, readarr that the lower-cased section
\* name contains; "" when it contains none.
AppTypeOf(app_name) ==
    LET l == Lower(app_name)
    IN  IF l \in {"radarr", "sonarr", "lidarr", "readarr"} THEN l ELSE ""

IsInt(s) == s \in {"0", "1", "2", "3"}

IntOf(s) ==
    CASE s = "0" -> 0
      [] s = "1" -> 1
      [] s = "2" -> 2
      [] s = "3" -> 3

\* URL_PATTERN.match(url)
UrlMatches(url) == url \in {"http://host", "https://host"}

ValidStatus(app_type) ==
    CASE app_type = "radarr" -> {"tba", "announced", "incinemas", "released", "deleted"}
      [] app_type = "sonarr" -> {"continuing", "ended", "upcoming", "deleted"}
      [] OTHER -> {"continuing", "ended"}

validate_application_config_lenient(app_name, app_config) ==
    IF AppTypeOf(app_name) = "" THEN {"app_type"} ELSE {}

\* The set of errors validate_application_config reports (the code returns
\* them as a list of messages; the run only asks whether there is any).
validate_application_config(app_name, app_config) ==
    IF AppTypeOf(app_name) = "" THEN {"app_type"}
    ELSE
        (IF app_config.ApiKeyLen # ApiKeyLength THEN {"ApiKey"} ELSE {})
        \cup (IF ~UrlMatches(app_config.Url) THEN {"Url"} ELSE {})
        \cup (IF Lower(app_config.Count) # "max"
              THEN IF IsInt(app_config.Count)
                   THEN IF IntOf(app_config.Count) < 1 THEN {"Count"} ELSE {}
                   ELSE {"Count"}
              ELSE {})
        \cup (IF Lower(app_config.Monitored) \notin {"true", "false"}
              THEN {"Monitored"} ELSE {})
        \cup (IF Lower(app_config.Unattended) \notin {"true", "false"}
              THEN {"Unattended"} ELSE {})
        \cup (IF app_config.TagName = "" THEN {"TagName"} ELSE {})
        \cup (IF app_config.Status # ""
                 /\ Lower(app_config.Status) \notin ValidStatus(AppTypeOf(app_name))
              THEN {"Status"} ELSE {})

(***************************************************************************)
(* The client (app/starr/client.py): its pure parts.                       *)
(***************************************************************************)

get_tag_id_exact(tag_list, tag_name) ==
    LET hits == {i \in 1..Len(tag_list) : tag_list[i].label = tag_name}
    IN  IF hits = {} THEN None
        ELSE tag_list[CHOOSE i \in hits : \A j \in hits : i <= j].id

\* The id of the first tag whose label equals the name ignoring case.
get_tag_id(tag_list, tag_name) ==
    LET hits == {i \in 1..Len(tag_list) :
                    Lower(tag_list[i].label) = Lower(tag_name)}
    IN  IF hits = {} THEN None
        ELSE tag_list[CHOOSE i \in hits : \A j \in hits : i <= j].id

\* The service's quality profiles (fixed), and the lookup by name.
QualityProfiles == << [id |-> 1, name |-> "hd"], [id |-> 2, name |-> "sd"] >>

get_quality_profile_id(profile_name) ==
    LET hits == {i \in 1..Len(QualityProfiles) :
                    Lower(QualityProfiles[i].name) = Lower(profile_name)}
    IN  IF hits = {} THEN None
        ELSE QualityProfiles[CHOOSE i \in hits : \A j \in hits : i <= j].id

IncludedWhateverItsTags(item, tid, monitored, status, qpid, itid, unattended) ==
    /\ item.monitored = monitored
    /\ (status # "" => Lower(item.status) = Lower(status))
    /\ (qpid # None => item.qualityProfileId = qpid)

IncludedProbeSkipsStatus(item, tid, monitored, status, qpid, itid, unattended) ==
    /\ item.monitored = monitored
    /\ IF unattended THEN tid \in item.tags ELSE tid \notin item.tags
    /\ ((~unattended /\ status # "") => Lower(item.status) = Lower(status))
    /\ (qpid # None => item.qualityProfileId = qpid)
    /\ ((~unattended /\ itid # None) => itid \notin item.tags)

IncludedIgnoreGateAlways(item, tid, monitored, status, qpid, itid, unattended) ==
    /\ item.monitored = monitored
    /\ IF unattended THEN tid \in item.tags ELSE tid \notin item.tags
    /\ (status # "" => Lower(item.status) = Lower(status))
    /\ (qpid # None => item.qualityProfileId = qpid)
    /\ (itid # None => itid \notin item.tags)

\* filter_media's test of one item, its five checks in the code's order.
Included(item, tid, monitored, status, qpid, itid, unattended) ==
    /\ item.monitored = monitored
    /\ IF unattended THEN tid \in item.tags ELSE tid \notin item.tags
    /\ (status # "" => Lower(item.status) = Lower(status))
    /\ (qpid # None => item.qualityProfileId = qpid)
    /\ ((~unattended /\ itid # None) => itid \notin item.tags)

filter_media_reversed(list, tid, monitored, status, qpid, itid, unattended) ==
    Reverse(SelectSeq(list, LAMBDA item :
        Included(item, tid, monitored, status, qpid, itid, unattended)))

filter_media(list, tid, monitored, status, qpid, itid, unattended) ==
    SelectSeq(list, LAMBDA item :
        Included(item, tid, monitored, status, qpid, itid, unattended))

Ids(items) == [i \in 1..Len(items) |-> items[i].id]

\* The titles the run reports (the model's items are named by their ids).
Titles(items) == [i \in 1..Len(items) |-> items[i].id]

SamplesWithReplacement(population, k) ==
    {[i \in 1..k |-> population[f[i]]] : f \in [1..k -> 1..Len(population)]}

\* random.sample(population, k): any k distinct elements, in any order.
Samples(population, k) ==
    LET n == Len(population)
        picks == {f \in [1..k -> 1..n] :
                    \A i, j \in 1..k : i # j => f[i] # f[j]}
    IN  {[i \in 1..k |-> population[f[i]]] : f \in picks}

\* The SELECT step: everything for "max", else a sample of min(count, len).
Select(count_str, filtered) ==
    IF Lower(count_str) = "max" THEN {filtered}
    ELSE Samples(filtered, Min(IntOf(count_str), Len(filtered)))

\* The lookups by self.app_type (client.py 124-173): what an unrecognized
\* kind gets is the dictionary lookup's default.
_get_media_endpoint(kind) ==
    CASE kind = "radarr" -> "movie"
      [] kind = "sonarr" -> "series"
      [] kind = "lidarr" -> "artist"
      [] kind = "readarr" -> "author"
      [] OTHER -> "movie"

_get_editor_endpoint(kind) ==
    CASE kind = "radarr" -> "movie/editor"
      [] kind = "sonarr" -> "series/editor"
      [] kind = "lidarr" -> "artist/editor"
      [] kind = "readarr" -> "author/editor"
      [] OTHER -> "movie/editor"

_get_media_id_field(kind) ==
    CASE kind = "radarr" -> "movieIds"
      [] kind = "sonarr" -> "seriesIds"
      [] kind = "lidarr" -> "artistIds"
      [] kind = "readarr" -> "authorIds"
      [] OTHER -> "movieIds"

_get_search_command_name(kind) ==
    CASE kind = "radarr" -> "MoviesSearch"
      [] kind = "sonarr" -> "SeriesSearch"
      [] kind = "lidarr" -> "ArtistSearch"
      [] kind = "readarr" -> "AuthorSearch"
      [] OTHER -> "MoviesSearch"

_get_search_id_field(kind) ==
    CASE kind = "radarr" -> "movieIds"
      [] kind = "sonarr" -> "seriesId"
      [] kind = "lidarr" -> "artistId"
      [] kind = "readarr" -> "authorId"
      [] OTHER -> "movieIds"

\* The body {"name": command_name, id_field: value} of a search command;
\* the value is a list of ids (is_list) or the single id value[1].
SearchBody(kind, value, is_list) ==
    [name |-> _get_search_command_name(kind),
     id_field |-> _get_search_id_field(kind), value |-> value,
     is_list |-> is_list]

search_media_always_batched(kind, list) ==
    IF list = << >> THEN << >> ELSE << SearchBody(kind, Ids(list), TRUE) >>

\* search_media(media): the bodies it posts to /command, in order, when no
\* post fails: nothing for an empty list, one body with the list of every id
\* when the kind is radarr, else one body per item with that item's id.
search_media(kind, list) ==
    IF list = << >> THEN << >>
    ELSE IF kind = "radarr" THEN << SearchBody(kind, Ids(list), TRUE) >>
    ELSE [i \in 1..Len(list) |-> SearchBody(kind, << list[i].id >>, FALSE)]

\* The body of add_media_tag's and remove_media_tag's PUT, and its path.
EditorBody(kind, list, tag, how) ==
    [path |-> _get_editor_endpoint(kind),
     id_field |-> _get_media_id_field(kind), value |-> Ids(list),
     tags |-> << tag >>, applyTags |-> how]

(***************************************************************************)
(* The media service, as the client's calls change it.                     *)
(***************************************************************************)

\* The id the service gives a new tag.
NewTagId(tag_list) ==
    IF tag_list = << >> THEN 1
    ELSE 1 + (CHOOSE m \in {tag_list[i].id : i \in 1..Len(tag_list)} :
                \A i \in 1..Len(tag_list) : tag_list[i].id <= m)

ApplyTagsFirstOnly(library, ids, tag, how) ==
    [i \in 1..Len(library) |->
        IF ids # << >> /\ library[i].id = ids[1]
        THEN [library[i] EXCEPT !.tags =
                IF how = "add" THEN @ \cup {tag} ELSE @ \ {tag}]
        ELSE library[i]]

ApplyTagsToAll(library, ids, tag, how) ==
    [i \in 1..Len(library) |->
        [library[i] EXCEPT !.tags =
            IF how = "add" THEN @ \cup {tag} ELSE @ \ {tag}]]

\* The bulk edit {ids, tags: [tag], applyTags: how} applied to the library.
ApplyTags(library, ids, tag, how) ==
    [i \in 1..Len(library) |->
        IF library[i].id \in Range(ids)
        THEN [library[i] EXCEPT !.tags =
                IF how = "add" THEN @ \cup {tag} ELSE @ \ {tag}]
        ELSE library[i]]

(***************************************************************************)
(* The states a run starts from.                                           *)
(***************************************************************************)

\* The service's tag list: empty, or holding the processed and the ignore tag.
TagLists ==
    { << >>,
      << [id |-> 1, label |-> "Done"], [id |-> 2, label |-> "skip"] >> }

TagIds(tag_list) == {tag_list[i].id : i \in 1..Len(tag_list)}

\* The libraries: NItems items with ids 1..NItems, each monitored or not and
\* carrying any of the service's tags.
Libraries(tag_list) ==
    {lib \in [1..NItems -> [id : 1..NItems, monitored : BOOLEAN,
                            status : {"released"}, qualityProfileId : {1},
                            tags : SUBSET TagIds(tag_list)]] :
        \A i \in 1..NItems : lib[i].id = i}

BaseConfig ==
    [present |-> TRUE, app_name |-> "Radarr", ApiKeyLen |-> 32,
     Url |-> "http://host", Count |-> "1", Monitored |-> "true",
     Unattended |-> "false", TagName |-> "done", IgnoreTag |-> "",
     QualityProfileName |-> "", Status |-> ""]

\* The configurations: the product of Unattended, IgnoreTag and Count for a
\* radarr section, a section of each other kind, and single variations of
\* the other keys.
Configs ==
    {[BaseConfig EXCEPT !.Unattended = u, !.IgnoreTag = i, !.Count = c] :
        u \in {"true", "false"}, i \in {"", "skip", "DONE"}, c \in {"1", "Max"}}
    \cup {[BaseConfig EXCEPT !.app_name = "Sonarr", !.Count = "Max", !.Unattended = u] :
            u \in {"true", "false"}}
    \cup {[BaseConfig EXCEPT !.app_name = "Lidarr", !.Count = "Max"],
          [BaseConfig EXCEPT !.app_name = "Readarr", !.Count = "Max"]}
    \cup {[BaseConfig EXCEPT !.Status = "Released", !.Unattended = "True"],
          [BaseConfig EXCEPT !.Status = "announced", !.Unattended = "true"],
          [BaseConfig EXCEPT !.QualityProfileName = "HD"],
          [BaseConfig EXCEPT !.QualityProfileName = "SD", !.Unattended = "true"],
          [BaseConfig EXCEPT !.QualityProfileName = "4K"],
          [BaseConfig EXCEPT !.Monitored = "false"],
          [BaseConfig EXCEPT !.ApiKeyLen = 31],
          [BaseConfig EXCEPT !.Count = "0"],
          [BaseConfig EXCEPT !.app_name = "Plex"],
          [BaseConfig EXCEPT !.present = FALSE]}

NoResult == [status |-> "none", error |-> "", searched_count |-> 0, items |-> << >>]

Returned(n, items) ==
    [status |-> "returned", error |-> "", searched_count |-> n, items |-> items]

Raised(error) ==
    [status |-> "raised", error |-> error, searched_count |-> 0, items |-> << >>]

\* One entry of the run's call log.
\* arg: the tag id of a bulk edit, the count of a record, the description
\* of a notification.
Call(op, ids, arg, ok) == [op |-> op, ids |-> ids, arg |-> arg, ok |-> ok]

NoView == 0 - 1

\* What triggers a run: the scheduler's job and a request to the API.
Triggers == {"scheduler", "api"}

NotInFlight == [pc |-> "idle", media_to_search |-> << >>]

\* scheduler.py 15-20: the scheduler holds no job, no job has run, and
\* neither configure_scheduler nor get_scheduler_status has been called.
SchedInit ==
    /\ jobs = << >>
    /\ last_configured = << >>
    /\ n_configured = 0
    /\ _last_run_success = "None"
    /\ scheduler_status = << >>

\* run_all_applications is not running and no run is in flight, and the
\* scheduler is as it was built.
OuterInit ==
    /\ sections = << >>
    /\ section_i = 0
    /\ all_pc = "idle"
    /\ all_dry_run = FALSE
    /\ total_searched = 0
    /\ all_items = << >>
    /\ results = << >>
    /\ in_flight = [t \in Triggers |-> NotInFlight]
    /\ searched = << >>
    /\ SchedInit

Init ==
    /\ tags \in TagLists
    /\ media \in Libraries(tags)
    /\ config \in Configs
    /\ run_history = << >>
    /\ n_appends = 0
    /\ pc = "idle"
    /\ dry_run = FALSE
    /\ tag_id = None
    /\ ignore_tag_id = None
    /\ quality_profile_id = None
    /\ all_media = << >>
    /\ filtered_media = << >>
    /\ media_to_search = << >>
    /\ pass = 1
    /\ search_i = 0
    /\ calls = << >>
    /\ result = NoResult
    /\ media_at_start = media
    /\ history_view = << >>
    /\ view_limit = NoView
    /\ self_app_type = ""
    /\ media_with_tag = << >>
    /\ OuterInit

(***************************************************************************)
(* run_application (app/runner.py), one action per awaited call.           *)
(***************************************************************************)

app_type == AppTypeOf(config.app_name)
monitored == Lower(config.Monitored) = "true"
unattended == Lower(config.Unattended) = "true"

service == << tags, media >>
locals == << tag_id, ignore_tag_id, quality_profile_id, all_media,
             filtered_media, media_to_search, pass, search_i >>
view == << history_view, view_limit >>

histvars == << run_history, n_appends >>

all_vars == << sections, section_i, all_pc, all_dry_run, total_searched,
              all_items, results >>
conc == << in_flight, searched >>
sched == << jobs, last_configured, n_configured, _last_run_success,
           scheduler_status >>
outer == << all_vars, conc, sched >>

\* A call of add_run_history for this application, after the calls in prior.
RecordTwice(prior, success, searched_count, message) ==
    /\ run_history' = add_run_history(
            add_run_history(run_history, config.app_name, success,
                            searched_count, message),
            config.app_name, success, searched_count, message)
    /\ n_appends' = n_appends + 2
    /\ calls' = Append(Append(prior,
            Call("add_run_history", << >>, searched_count, success)),
            Call("add_run_history", << >>, searched_count, success))

Record(prior, success, searched_count, message) ==
    /\ run_history' = add_run_history(run_history, config.app_name, success,
                                      searched_count, message)
    /\ n_appends' = n_appends + 1
    /\ calls' = Append(prior,
            Call("add_run_history", << >>, searched_count, success))

RaiseAndRetry(error) == UNCHANGED << pc, result >>

\* An exception leaves run_application: nothing in it catches one.
Raise(error) ==
    /\ pc' = "raised"
    /\ result' = Raised(error)

\* Lines 52-97: run_application(app_name, dry_run) up to its first await:
\* load the section, validate it, build the client.
Begin(dry) ==
    /\ dry_run' = dry
    /\ tag_id' = None
    /\ ignore_tag_id' = None
    /\ quality_profile_id' = None
    /\ all_media' = << >>
    /\ filtered_media' = << >>
    /\ media_to_search' = << >>
    /\ pass' = 1
    /\ search_i' = 0
    /\ media_at_start' = media
    /\ media_with_tag' = << >>
    /\ IF ~config.present
       THEN /\ Raise("not_configured")
            /\ calls' = << >>
            /\ self_app_type' = ""
            /\ UNCHANGED histvars
       ELSE IF validate_application_config(config.app_name, config) # {}
       THEN /\ Raise("config_errors")
            /\ Record(<< >>, FALSE, 0, "config_errors")
            /\ self_app_type' = ""
       ELSE /\ pc' = "get_api_version"
            /\ result' = NoResult
            /\ calls' = << >>
            /\ self_app_type' = Lower(app_type)
            /\ UNCHANGED histvars
    /\ UNCHANGED << service, config, view >>

\* A run is started, dry or not, when no run is in progress.
StartRun ==
    /\ pc \in {"idle", "done", "raised"}
    /\ Len(run_history) < MaxRuns
    /\ \E dry \in BOOLEAN : Begin(dry)
    /\ UNCHANGED outer

\* Lines 99-101: client.get_api_version().
GetApiVersion ==
    /\ pc = "get_api_version"
    /\ \E ok \in BOOLEAN :
        /\ calls' = Append(calls, Call("GET_api", << >>, 0, ok))
        /\ IF ok THEN pc' = "get_tag_id" /\ UNCHANGED result
                 ELSE Raise("api_error")
    /\ UNCHANGED << service, config, histvars, dry_run, locals,
                    media_at_start, self_app_type,
                    media_with_tag, view, outer >>

\* Where the run goes once the processed tag is resolved (lines 107-122).
AfterTag ==
    IF config.IgnoreTag # "" THEN "get_ignore_tag_id"
    ELSE IF config.QualityProfileName # "" THEN "get_quality_profile_id"
    ELSE "get_media"

AfterIgnoreTag ==
    IF config.QualityProfileName # "" THEN "get_quality_profile_id"
    ELSE "get_media"

\* Line 105, get_or_create_tag's lookup: client.get_tag_id(tag_name).
GetTagId ==
    /\ pc = "get_tag_id"
    /\ \E ok \in BOOLEAN :
        /\ calls' = Append(calls, Call("GET_tag", << >>, 0, ok))
        /\ IF ~ok THEN Raise("api_error") /\ UNCHANGED tag_id
           ELSE /\ tag_id' = get_tag_id(tags, config.TagName)
                /\ pc' = IF tag_id' = None THEN "create_tag" ELSE AfterTag
                /\ UNCHANGED result
    /\ UNCHANGED << service, config, histvars, dry_run, ignore_tag_id,
                    quality_profile_id, all_media, filtered_media,
                    media_to_search, pass, search_i, media_at_start, self_app_type,
                    media_with_tag, view, outer >>

\* Line 105, get_or_create_tag's creation: client.create_tag(tag_name).
CreateTag ==
    /\ pc = "create_tag"
    /\ \E ok \in BOOLEAN :
        /\ calls' = Append(calls, Call("POST_tag", << >>, 0, ok))
        /\ IF ~ok THEN Raise("api_error") /\ UNCHANGED << tags, tag_id >>
           ELSE /\ tag_id' = NewTagId(tags)
                /\ tags' = Append(tags, [id |-> tag_id', label |-> config.TagName])
                /\ pc' = AfterTag
                /\ UNCHANGED result
    /\ UNCHANGED << media, config, histvars, dry_run, ignore_tag_id,
                    quality_profile_id, all_media, filtered_media,
                    media_to_search, pass, search_i, media_at_start, self_app_type,
                    media_with_tag, view, outer >>

\* Lines 107-113: client.get_tag_id(ignore_tag) and the collision check.
GetIgnoreTagId ==
    /\ pc = "get_ignore_tag_id"
    /\ \E ok \in BOOLEAN :
        /\ calls' = Append(calls, Call("GET_tag", << >>, 0, ok))
        /\ IF ~ok THEN Raise("api_error") /\ UNCHANGED ignore_tag_id
           ELSE /\ ignore_tag_id' = get_tag_id(tags, config.IgnoreTag)
                /\ IF tag_id = ignore_tag_id'
                   THEN Raise("tag_collision")
                   ELSE pc' = AfterIgnoreTag /\ UNCHANGED result
    /\ UNCHANGED << service, config, histvars, dry_run, tag_id,
                    quality_profile_id, all_media, filtered_media,
                    media_to_search, pass, search_i, media_at_start, self_app_type,
                    media_with_tag, view, outer >>

\* Lines 115-119: client.get_quality_profile_id(quality_profile).
GetQualityProfileId ==
    /\ pc = "get_quality_profile_id"
    /\ \E ok \in BOOLEAN :
        /\ calls' = Append(calls, Call("GET_qualityprofile", << >>, 0, ok))
        /\ IF ~ok THEN Raise("api_error") /\ UNCHANGED quality_profile_id
           ELSE /\ quality_profile_id' =
                        get_quality_profile_id(config.QualityProfileName)
                /\ IF quality_profile_id' = None
                   THEN Raise("profile_not_found")
                   ELSE pc' = "get_media" /\ UNCHANGED result
    /\ UNCHANGED << service, config, histvars, dry_run, tag_id,
                    ignore_tag_id, all_media, filtered_media,
                    media_to_search, pass, search_i, media_at_start, self_app_type,
                    media_with_tag, view, outer >>

\* Lines 141-149, 157-165, 172-180: the filter call with the run's criteria.
FilterRun(list, probe) ==
    filter_media(list, tag_id, monitored, config.Status, quality_profile_id,
                 ignore_tag_id, probe)

\* Lines 152, 153, 167: the untag-and-retry branch is taken on the first
\* pass only, when nothing is eligible, the section is unattended and some
\* item carries the tag.
UntagRetryLoop(n, filtered, with_tag) ==
    filtered = << >> /\ unattended

UntagRetryNever(n, filtered, with_tag) == FALSE

UntagRetry(n, filtered, with_tag) ==
    n = 1 /\ filtered = << >> /\ unattended /\ with_tag # << >>

\* Lines 121-122 and 171: client.get_media(), and what follows it without
\* a further await: the filter, the empty-result exit's record (182-185),
\* the selection (194-201) and the dry-run exit (213-218).
GetMedia ==
    /\ pc = "get_media"
    /\ \E ok \in BOOLEAN :
        LET fetched == Call("GET_media", << >>,
                            _get_media_endpoint(self_app_type), ok)
            filtered == FilterRun(media, FALSE)
        IN  IF ~ok
            THEN /\ Raise("api_error")
                 /\ calls' = Append(calls, fetched)
                 /\ UNCHANGED << histvars, all_media, filtered_media,
                                 media_to_search, media_with_tag >>
            ELSE /\ all_media' = media
                 /\ filtered_media' = filtered
                 /\ media_with_tag' =
                        IF pass = 1 /\ filtered = << >> /\ unattended
                        THEN FilterRun(media, TRUE) ELSE media_with_tag
                 /\ IF UntagRetry(pass, filtered, media_with_tag')
                    THEN /\ pc' = "remove_media_tag"
                         /\ calls' = Append(calls, fetched)
                         /\ UNCHANGED << histvars, media_to_search, result >>
                    ELSE IF filtered = << >>
                    THEN /\ Record(Append(calls, fetched), TRUE, 0,
                                   "no_media_left")
                         /\ pc' = "send_notifications"
                         /\ UNCHANGED << media_to_search, result >>
                    ELSE \E selected \in Select(config.Count, filtered) :
                         /\ media_to_search' = selected
                         /\ IF dry_run
                            THEN /\ Record(Append(calls, fetched), TRUE,
                                           Len(selected), "dry_run")
                                 /\ pc' = "done"
                                 /\ result' = Returned(Len(selected),
                                                       Titles(selected))
                            ELSE /\ pc' = "search_media"
                                 /\ calls' = Append(calls, fetched)
                                 /\ UNCHANGED << histvars, result >>
    /\ UNCHANGED << service, config, dry_run, tag_id, ignore_tag_id,
                    quality_profile_id, pass, search_i, media_at_start,
                    self_app_type, view, outer >>

\* Line 168: client.remove_media_tag(media_with_tag, tag_id); an empty list
\* issues no call (client.py 339-341).  The refetch follows.
RemoveMediaTag ==
    /\ pc = "remove_media_tag"
    /\     IF media_with_tag = << >>
           THEN /\ pc' = "get_media"
                /\ pass' = 2
                /\ UNCHANGED << media, calls, result >>
           ELSE \E ok \in BOOLEAN :
                /\ calls' = Append(calls,
                        Call("PUT_remove", Ids(media_with_tag),
                             EditorBody(self_app_type, media_with_tag,
                                        tag_id, "remove"), ok))
                /\ IF ~ok
                   THEN Raise("api_error") /\ UNCHANGED << media, pass >>
                   ELSE /\ media' = ApplyTags(media, Ids(media_with_tag),
                                              tag_id, "remove")
                        /\ pc' = "get_media"
                        /\ pass' = 2
                        /\ UNCHANGED result
    /\ UNCHANGED << tags, config, histvars, dry_run, tag_id, ignore_tag_id,
                    quality_profile_id, all_media, filtered_media,
                    media_to_search, search_i, media_at_start, self_app_type,
                    media_with_tag, view, outer >>

SearchMediaKeepsGoing ==
    /\ pc = "search_media"
    /\ LET bodies == search_media(self_app_type, media_to_search)
       IN  IF bodies = << >>
           THEN /\ pc' = "add_media_tag"
                /\ UNCHANGED << calls, result, search_i >>
           ELSE \E ok \in BOOLEAN :
                LET body == bodies[search_i + 1]
                IN  /\ calls' = Append(calls,
                            Call("POST_command", body.value, body, ok))
                    /\ search_i' = search_i + 1
                    /\ pc' = IF search_i' = Len(bodies)
                             THEN "add_media_tag" ELSE "search_media"
                    /\ UNCHANGED result
    /\ UNCHANGED << service, config, histvars, dry_run, tag_id,
                    ignore_tag_id, quality_profile_id, all_media,
                    filtered_media, media_to_search, pass, media_at_start, self_app_type,
                    media_with_tag, view, outer >>

\* Line 221: client.search_media(media_to_search), one POST per step
\* (client.py 376-401).  An empty list issues no call (368-370).
SearchMedia ==
    /\ pc = "search_media"
    /\ LET bodies == search_media(self_app_type, media_to_search)
       IN  IF bodies = << >>
           THEN /\ pc' = "add_media_tag"
                /\ UNCHANGED << calls, result, search_i >>
           ELSE \E ok \in BOOLEAN :
                LET body == bodies[search_i + 1]
                IN  /\ calls' = Append(calls,
                            Call("POST_command", body.value, body, ok))
                    /\ IF ~ok
                       THEN Raise("api_error") /\ UNCHANGED search_i
                       ELSE /\ search_i' = search_i + 1
                            /\ pc' = IF search_i' = Len(bodies)
                                     THEN "add_media_tag" ELSE "search_media"
                            /\ UNCHANGED result
    /\ UNCHANGED << service, config, histvars, dry_run, tag_id,
                    ignore_tag_id, quality_profile_id, all_media,
                    filtered_media, media_to_search, pass, media_at_start, self_app_type,
                    media_with_tag, view, outer >>

AddMediaTagCompensates ==
    /\ pc = "add_media_tag"
    /\ \E ok \in BOOLEAN :
        LET put == Call("PUT_add", Ids(media_to_search),
                        EditorBody(self_app_type, media_to_search, tag_id,
                                   "add"), ok)
            undo == Call("PUT_remove", Ids(media_to_search),
                         EditorBody(self_app_type, media_to_search, tag_id,
                                    "remove"), TRUE)
        IN  IF ~ok
            THEN /\ Raise("api_error")
                 /\ calls' = Append(Append(calls, put), undo)
                 /\ UNCHANGED << media, histvars >>
            ELSE /\ media' = ApplyTags(media, Ids(media_to_search), tag_id, "add")
                 /\ Record(Append(calls, put), TRUE, Len(media_to_search),
                           "searched")
                 /\ pc' = "send_notifications"
                 /\ UNCHANGED result
    /\ UNCHANGED << tags, config, dry_run, locals, media_at_start,
                    self_app_type, media_with_tag, view, outer >>

\* Lines 224-228: client.add_media_tag(media_to_search, tag_id), then the
\* run's record.
AddMediaTag ==
    /\ pc = "add_media_tag"
    /\ \E ok \in BOOLEAN :
        LET put == Call("PUT_add", Ids(media_to_search),
                        EditorBody(self_app_type, media_to_search, tag_id,
                                   "add"), ok)
        IN  IF ~ok
            THEN /\ Raise("api_error")
                 /\ calls' = Append(calls, put)
                 /\ UNCHANGED << media, histvars >>
            ELSE /\ media' = ApplyTags(media, Ids(media_to_search), tag_id, "add")
                 /\ Record(Append(calls, put), TRUE, Len(media_to_search),
                           "searched")
                 /\ pc' = "send_notifications"
                 /\ UNCHANGED result
    /\ UNCHANGED << tags, config, dry_run, locals, media_at_start, self_app_type,
                    media_with_tag, view, outer >>

DescriptionCutsAtLimit(count, titles) ==
    IF count = 0
    THEN [text |-> "no_media_left", count |-> 0, titles |-> << >>]
    ELSE IF Len(titles) < TitleLimit
    THEN [text |-> "search_started", count |-> count, titles |-> titles]
    ELSE [text |-> "search_started_too_long", count |-> count, titles |-> << >>]

\* Lines 262-271: the description _send_notifications builds.
DescriptionNoZero(count, titles) ==
    IF Len(titles) <= TitleLimit
    THEN [text |-> "search_started", count |-> count, titles |-> titles]
    ELSE [text |-> "search_started_too_long", count |-> count, titles |-> << >>]

Description(count, titles) ==
    IF count = 0
    THEN [text |-> "no_media_left", count |-> 0, titles |-> << >>]
    ELSE IF Len(titles) <= TitleLimit
    THEN [text |-> "search_started", count |-> count, titles |-> titles]
    ELSE [text |-> "search_started_too_long", count |-> count, titles |-> << >>]

\* Lines 246-260: the webhooks and the channel id _send_notifications reads
\* from the Notifications (else General) section; "" for an absent key.
NotifConfigs ==
    {[discord_webhook |-> d, notifiarr_webhook |-> "url",
      notifiarr_channel |-> c] : d \in {"", "url"}, c \in {"1", "abc"}}
    \cup {[discord_webhook |-> d, notifiarr_webhook |-> "",
           notifiarr_channel |-> ""] : d \in {"", "url"}}

\* What a sender does: it returns (True or False, which the caller ignores),
\* or it raises.
Outcomes == {"sent", "raised"}

CaughtNever(outcome) == FALSE

\* Lines 300 and 314: "except Exception" catches whatever the try block
\* raised (the sender's exception, or int() on the channel id).
Caught(outcome) == TRUE

\* One channel's attempt, as an entry of the call log.
Attempt(channel, notif, outcome) ==
    Call(channel, << >>, [notif |-> notif, outcome |-> outcome],
         outcome = "sent")

Failed(attempt) == attempt.arg.outcome \in {"raised", "bad_channel"}

\* Lines 236-315: _send_notifications, as the entries it adds to the call
\* log: itself with its description, then Discord's attempt when its webhook
\* is set, then Notifiarr's when its webhook and channel are set.  A channel
\* is reached only when nothing raised before it escaped its try block.
_send_notifications(notif, count, titles, discord_outcome, notifiarr_outcome) ==
    LET invoked == << Call("send_notifications", << >>,
                          Description(count, titles), TRUE) >>
        discord ==
            IF notif.discord_webhook # ""
            THEN << Attempt("discord", notif, discord_outcome) >>
            ELSE << >>
        escaped == discord # << >> /\ Failed(discord[1])
                        /\ ~Caught(discord_outcome)
        notifiarr ==
            IF ~escaped /\ notif.notifiarr_webhook # ""
                        /\ notif.notifiarr_channel # ""
            THEN << Attempt("notifiarr", notif,
                            IF IsInt(notif.notifiarr_channel)
                            THEN notifiarr_outcome ELSE "bad_channel") >>
            ELSE << >>
    IN  invoked \o discord \o notifiarr

\* An exception left _send_notifications.
Escapes(log) ==
    \E i \in 1..Len(log) :
        /\ log[i].op \in {"discord", "notifiarr"}
        /\ Failed(log[i])
        /\ ~Caught(log[i].arg.outcome)

\* Lines 188-190 and 231-233: _send_notifications(config, app_name,
\* app_type, count, titles), then the return.
SendNotifications ==
    /\ pc = "send_notifications"
    /\ \E notif \in NotifConfigs, d \in Outcomes, n \in Outcomes :
        LET log == _send_notifications(notif, Len(media_to_search),
                                       Titles(media_to_search), d, n)
        IN  /\ calls' = calls \o log
            /\ IF Escapes(log)
               THEN Raise("notification_error")
               ELSE /\ pc' = "done"
                    /\ result' = Returned(Len(media_to_search),
                                          Titles(media_to_search))
    /\ UNCHANGED << service, config, histvars, dry_run, locals,
                    media_at_start, self_app_type,
                    media_with_tag, view, outer >>

Next ==
    \/ StartRun
    \/ GetApiVersion
    \/ GetTagId
    \/ CreateTag
    \/ GetIgnoreTagId
    \/ GetQualityProfileId
    \/ GetMedia
    \/ RemoveMediaTag
    \/ SearchMedia
    \/ AddMediaTag
    \/ SendNotifications

Spec == Init /\ [][Next]_vars

(***************************************************************************)
(* The run history on its own: add_run_history called MaxAppends times     *)
(* with numbered records, get_run_history called with any of Limits.       *)
(***************************************************************************)

Limits == {0, 1, 2, 50, 100, 1000}

HistInit ==
    /\ tags = << >>
    /\ media = << >>
    /\ config = BaseConfig
    /\ run_history = << >>
    /\ n_appends = 0
    /\ pc = "idle"
    /\ dry_run = FALSE
    /\ tag_id = None
    /\ ignore_tag_id = None
    /\ quality_profile_id = None
    /\ all_media = << >>
    /\ filtered_media = << >>
    /\ media_to_search = << >>
    /\ pass = 1
    /\ search_i = 0
    /\ calls = << >>
    /\ result = NoResult
    /\ media_at_start = << >>
    /\ history_view = << >>
    /\ view_limit = NoView
    /\ self_app_type = ""
    /\ media_with_tag = << >>
    /\ OuterInit

run == << pc, dry_run, locals, calls, result, media_at_start,
         self_app_type, media_with_tag >>

\* add_run_history(application, success, searched_count, message); the
\* n-th call records searched_count n.
HistAdd ==
    /\ n_appends < MaxAppends
    /\ run_history' = add_run_history(run_history, config.app_name, TRUE,
                                      n_appends + 1, "searched")
    /\ n_appends' = n_appends + 1
    /\ UNCHANGED << service, config, run, view, outer >>

\* get_run_history(limit)
HistGet ==
    /\ \E limit \in Limits :
        /\ history_view' = get_run_history(limit)
        /\ view_limit' = limit
    /\ UNCHANGED << service, config, histvars, run, outer >>

HistNext == HistAdd \/ HistGet

SpecHist == HistInit /\ [][HistNext]_vars

(***************************************************************************)
(* add_run_history called from two threads, the scheduler's worker thread  *)
(* (app/scheduler.py 44-56) and the server's event loop: each call is the  *)
(* append (line 39), then the length test (line 48), then the pop(0) when  *)
(* the test was true (line 49).  Each of the three is one step, and the    *)
(* steps of the two calls interleave.  The n-th append records             *)
(* searched_count n.                                                       *)
(***************************************************************************)

over_cap_by_two(history) == Len(history) > HistoryCap + 1

\* Line 48: len(_run_history) > 100
over_cap(history) == Len(history) > HistoryCap

\* The variables add_run_history leaves alone.
HistBystanders == << service, config, run, view, all_vars, searched, sched >>

\* Lines 39-45: _run_history.append({...})
HistAppend(t) ==
    /\ in_flight[t].pc = "idle"
    /\ n_appends < MaxAppends
    /\ run_history' = Append(run_history,
            RunRecord(config.app_name, TRUE, n_appends + 1, "searched"))
    /\ n_appends' = n_appends + 1
    /\ in_flight' = [in_flight EXCEPT ![t].pc = "appended"]
    /\ UNCHANGED HistBystanders

\* Line 48: the length test.
HistTest(t) ==
    /\ in_flight[t].pc = "appended"
    /\ in_flight' = [in_flight EXCEPT ![t].pc =
            IF over_cap(run_history) THEN "evict" ELSE "idle"]
    /\ UNCHANGED << histvars, HistBystanders >>

\* Line 49: _run_history.pop(0)
HistEvict(t) ==
    /\ in_flight[t].pc = "evict"
    /\ run_history' = Tail(run_history)
    /\ in_flight' = [in_flight EXCEPT ![t].pc = "idle"]
    /\ UNCHANGED << n_appends, HistBystanders >>

HistConcNext ==
    \E t \in Triggers :
        \/ HistAppend(t)
        \/ HistTest(t)
        \/ HistEvict(t)

SpecHistConc == HistInit /\ [][HistConcNext]_vars

(***************************************************************************)
(* filter_media on its own: called on any list of up to NItems items with  *)
(* any criteria, in normal mode, then in probe mode, then in both again.   *)
(***************************************************************************)

\* The variables neither filter_media nor the selection touches.
Bystanders == << tags, run_history, n_appends, dry_run, pass, search_i,
                calls, result, media_at_start, view, self_app_type, outer >>

BystandersInit ==
    /\ tags = << >>
    /\ run_history = << >>
    /\ n_appends = 0
    /\ dry_run = FALSE
    /\ pass = 1
    /\ search_i = 0
    /\ calls = << >>
    /\ result = NoResult
    /\ media_at_start = << >>
    /\ history_view = << >>
    /\ view_limit = NoView
    /\ self_app_type = ""
    /\ OuterInit

\* The media lists: 0..NItems items with ids 1, 2, ... in list order, each
\* monitored or not, released or announced, carrying any of the tags 1, 2.
MediaLists ==
    UNION {{list \in [1..n -> [id : 1..n, monitored : BOOLEAN,
                               status : {"released", "announced"},
                               qualityProfileId : {1}, tags : SUBSET {1, 2}]] :
                \A i \in 1..n : list[i].id = i} : n \in 0..NItems}

\* The sections the criteria come from.
FilterConfigs ==
    {[BaseConfig EXCEPT !.Monitored = m, !.Status = st] :
        m \in {"true", "false"}, st \in {"", "Released"}}

FilterInit ==
    /\ BystandersInit
    /\ pc = "idle"
    /\ media \in MediaLists
    /\ config \in FilterConfigs
    /\ tag_id \in {1, 2}
    /\ quality_profile_id \in {None, 1, 2}
    /\ ignore_tag_id \in {None, 2}
    /\ all_media = media
    /\ filtered_media = << >>
    /\ media_with_tag = << >>
    /\ media_to_search = << >>

criteria == << config, tag_id, quality_profile_id, ignore_tag_id >>

\* filter_media(all_media, ..., unattended=False)
FilterNormal ==
    /\ pc = "idle"
    /\ filtered_media' = FilterRun(all_media, FALSE)
    /\ pc' = "filtered"
    /\ UNCHANGED << media, all_media, criteria, media_with_tag,
                    media_to_search, Bystanders >>

\* filter_media(all_media, ..., unattended=True)
FilterProbe ==
    /\ pc = "filtered"
    /\ media_with_tag' = FilterRun(all_media, TRUE)
    /\ pc' = "probed"
    /\ UNCHANGED << media, all_media, criteria, filtered_media,
                    media_to_search, Bystanders >>

\* Both calls once more, with the same arguments.
FilterAgain ==
    /\ pc = "probed"
    /\ filtered_media' = FilterRun(all_media, FALSE)
    /\ media_with_tag' = FilterRun(all_media, TRUE)
    /\ pc' = "again"
    /\ UNCHANGED << media, all_media, criteria, media_to_search, Bystanders >>

FilterNext == FilterNormal \/ FilterProbe \/ FilterAgain

SpecFilter == FilterInit /\ [][FilterNext]_vars

(***************************************************************************)
(* The SELECT step on its own (runner.py 194-201): any Count against any   *)
(* filtered list of up to NItems items.                                    *)
(***************************************************************************)

Counts == {"1", "2", "3", "max", "Max", "MAX"}

SelectInit ==
    /\ BystandersInit
    /\ pc = "idle"
    /\ media = << >>
    /\ all_media = << >>
    /\ config \in {[BaseConfig EXCEPT !.Count = c] : c \in Counts}
    /\ tag_id = None
    /\ quality_profile_id = None
    /\ ignore_tag_id = None
    /\ filtered_media \in MediaLists
    /\ media_with_tag = << >>
    /\ media_to_search = << >>

SelectMedia ==
    /\ pc = "idle"
    /\ media_to_search' \in Select(config.Count, filtered_media)
    /\ pc' = "selected"
    /\ UNCHANGED << media, all_media, criteria, filtered_media,
                    media_with_tag, Bystanders >>

SelectNext == SelectMedia

SpecSelect == SelectInit /\ [][SelectNext]_vars

(***************************************************************************)
(* A StarrClient on its own (app/starr/client.py): built for any app_type, *)
(* it fetches the media, searches all of them, tags them and untags them.  *)
(***************************************************************************)

\* The kinds the lookups know, and one they do not.
Kinds == {"radarr", "sonarr", "lidarr", "readarr"}
ClientKinds == Kinds \cup {"whisparr"}

ClientInit ==
    /\ tags = << >>
    /\ run_history = << >>
    /\ n_appends = 0
    /\ dry_run = FALSE
    /\ pass = 1
    /\ search_i = 0
    /\ calls = << >>
    /\ result = NoResult
    /\ history_view = << >>
    /\ view_limit = NoView
    /\ OuterInit
    /\ pc = "get_media"
    /\ self_app_type \in ClientKinds
    /\ media \in {list \in MediaLists :
                    \A i \in 1..Len(list) :
                        list[i].monitored /\ list[i].status = "released"}
    /\ media_at_start = media
    /\ config = BaseConfig
    /\ tag_id = 1
    /\ quality_profile_id = None
    /\ ignore_tag_id = None
    /\ all_media = << >>
    /\ filtered_media = << >>
    /\ media_with_tag = << >>
    /\ media_to_search = << >>

\* get_media() (client.py 107-122); the caller then asks for a search of
\* everything it got.
ClientGetMedia ==
    /\ pc = "get_media"
    /\ \E ok \in BOOLEAN :
        /\ calls' = Append(calls, Call("GET_media", << >>,
                        _get_media_endpoint(self_app_type), ok))
        /\ IF ~ok
           THEN Raise("api_error") /\ UNCHANGED << all_media, media_to_search >>
           ELSE /\ all_media' = media
                /\ media_to_search' = media
                /\ pc' = "search_media"
                /\ UNCHANGED result
    /\ UNCHANGED << service, config, histvars, dry_run, tag_id, ignore_tag_id,
                    quality_profile_id, filtered_media, pass, search_i,
                    media_at_start, self_app_type, media_with_tag, view, outer >>

\* add_media_tag(media, tag_id) (client.py 294-326); an empty list issues
\* no call.
ClientAddMediaTag ==
    /\ pc = "add_media_tag"
    /\ IF media_to_search = << >>
       THEN /\ pc' = "remove_media_tag"
            /\ UNCHANGED << media, calls, result >>
       ELSE \E ok \in BOOLEAN :
            /\ calls' = Append(calls,
                    Call("PUT_add", Ids(media_to_search),
                         EditorBody(self_app_type, media_to_search, tag_id,
                                    "add"), ok))
            /\ IF ~ok
               THEN Raise("api_error") /\ UNCHANGED media
               ELSE /\ media' = ApplyTags(media, Ids(media_to_search),
                                          tag_id, "add")
                    /\ pc' = "remove_media_tag"
                    /\ UNCHANGED result
    /\ UNCHANGED << tags, config, histvars, dry_run, locals, media_at_start,
                    self_app_type, media_with_tag, view, outer >>

ClientRemoveMediaTagAlwaysPuts ==
    /\ pc = "remove_media_tag"
    /\ \E ok \in BOOLEAN :
            /\ calls' = Append(calls,
                    Call("PUT_remove", Ids(media_to_search),
                         EditorBody(self_app_type, media_to_search, tag_id,
                                    "remove"), ok))
            /\ IF ~ok
               THEN Raise("api_error") /\ UNCHANGED media
               ELSE /\ media' = ApplyTags(media, Ids(media_to_search),
                                          tag_id, "remove")
                    /\ pc' = "closed"
                    /\ UNCHANGED result
    /\ UNCHANGED << tags, config, histvars, dry_run, locals, media_at_start,
                    self_app_type, media_with_tag, view, outer >>

\* remove_media_tag(media, tag_id) (client.py 328-360); an empty list
\* issues no call.
ClientRemoveMediaTag ==
    /\ pc = "remove_media_tag"
    /\ IF media_to_search = << >>
       THEN /\ pc' = "closed"
            /\ UNCHANGED << media, calls, result >>
       ELSE \E ok \in BOOLEAN :
            /\ calls' = Append(calls,
                    Call("PUT_remove", Ids(media_to_search),
                         EditorBody(self_app_type, media_to_search, tag_id,
                                    "remove"), ok))
            /\ IF ~ok
               THEN Raise("api_error") /\ UNCHANGED media
               ELSE /\ media' = ApplyTags(media, Ids(media_to_search),
                                          tag_id, "remove")
                    /\ pc' = "closed"
                    /\ UNCHANGED result
    /\ UNCHANGED << tags, config, histvars, dry_run, locals, media_at_start,
                    self_app_type, media_with_tag, view, outer >>

ClientNext ==
    \/ ClientGetMedia
    \/ SearchMedia
    \/ ClientAddMediaTag
    \/ ClientRemoveMediaTag

SpecClient == ClientInit /\ [][ClientNext]_vars

(***************************************************************************)
(* get_or_create_tag and get_tag_id on their own (client.py 191-251):      *)
(* against any tag list of up to MaxTags tags, the processed tag is looked *)
(* up and created when absent, then the ignore tag is looked up.           *)
(***************************************************************************)

Labels == {"done", "Done", "DONE", "skip"}

\* The service's tag lists: up to MaxTags tags with any labels, their ids
\* ascending or descending along the list.
WideTagLists ==
    UNION {{[i \in 1..n |-> [id |-> IF up THEN i ELSE n + 1 - i,
                              label |-> labels[i]]] :
                labels \in [1..n -> Labels], up \in BOOLEAN} :
           n \in 0..MaxTags}

TagConfigs ==
    {[BaseConfig EXCEPT !.TagName = t, !.IgnoreTag = i] :
        t \in {"done", "Done", "fresh"}, i \in {"", "skip", "DONE"}}

TagInit ==
    /\ tags \in WideTagLists
    /\ media = << >>
    /\ config \in TagConfigs
    /\ run_history = << >>
    /\ n_appends = 0
    /\ pc = "get_tag_id"
    /\ dry_run = FALSE
    /\ tag_id = None
    /\ ignore_tag_id = None
    /\ quality_profile_id = None
    /\ all_media = << >>
    /\ filtered_media = << >>
    /\ media_to_search = << >>
    /\ pass = 1
    /\ search_i = 0
    /\ calls = << >>
    /\ result = NoResult
    /\ media_at_start = << >>
    /\ history_view = << >>
    /\ view_limit = NoView
    /\ self_app_type = "radarr"
    /\ media_with_tag = << >>
    /\ OuterInit

TagNext ==
    \/ GetTagId
    \/ CreateTag
    \/ GetIgnoreTagId

SpecTag == TagInit /\ [][TagNext]_vars

(***************************************************************************)
(* _send_notifications on its own (runner.py 236-315), called as the run   *)
(* calls it (lines 188 and 231) with the count and the titles of a         *)
(* selection of 0 to MaxTitles items.                                      *)
(***************************************************************************)

\* A selection of n items, with the ids 1..n.
Selection(n) ==
    [i \in 1..n |-> [id |-> i, monitored |-> TRUE, status |-> "released",
                     qualityProfileId |-> 1, tags |-> {}]]

NotifyInit ==
    /\ tags = << >>
    /\ media = << >>
    /\ config = BaseConfig
    /\ run_history = << >>
    /\ n_appends = 0
    /\ pc = "send_notifications"
    /\ dry_run = FALSE
    /\ tag_id = 1
    /\ ignore_tag_id = None
    /\ quality_profile_id = None
    /\ all_media = << >>
    /\ filtered_media = << >>
    /\ media_to_search \in {Selection(n) : n \in 0..MaxTitles}
    /\ pass = 1
    /\ search_i = 0
    /\ calls = << >>
    /\ result = NoResult
    /\ media_at_start = << >>
    /\ history_view = << >>
    /\ view_limit = NoView
    /\ self_app_type = "radarr"
    /\ media_with_tag = << >>
    /\ OuterInit

NotifyNext == SendNotifications

SpecNotify == NotifyInit /\ [][NotifyNext]_vars

(***************************************************************************)
(* run_all_applications (app/runner.py 318-355): the loop over the file's  *)
(* sections, each application's run being the run modelled above, against  *)
(* that application's own service.                                         *)
(***************************************************************************)

\* Line 330.
excluded_sections == {"Notifications", "General", "Scheduler"}

\* An unattended radarr section with an ignore tag and a quality profile.
RadarrSection ==
    [BaseConfig EXCEPT !.Count = "Max", !.Unattended = "true",
                       !.IgnoreTag = "skip", !.QualityProfileName = "HD"]

\* The sections a file may hold: two valid applications, one whose ApiKey
\* is too short, and the reserved sections.
SectionPool ==
    {RadarrSection,
     [BaseConfig EXCEPT !.app_name = "Sonarr", !.Count = "Max"],
     [BaseConfig EXCEPT !.app_name = "Lidarr", !.ApiKeyLen = 31],
     [BaseConfig EXCEPT !.app_name = "General"]}

\* config.sections(): up to MaxSections sections with distinct names, in
\* any order, and one file with the other reserved sections.
SectionLists ==
    UNION {{list \in [1..n -> SectionPool] :
                \A i, j \in 1..n : i # j => list[i] # list[j]} :
           n \in 0..MaxSections}
    \cup {<< [BaseConfig EXCEPT !.app_name = "Notifications"],
             RadarrSection,
             [BaseConfig EXCEPT !.app_name = "Scheduler"],
             [BaseConfig EXCEPT !.app_name = "Lidarr", !.ApiKeyLen = 31] >>}

\* The service behind an application: it has no tag yet, or it has the
\* processed tag and every item carries it or not; every item is monitored.
AllTagLists == {<< >>, << [id |-> 1, label |-> "done"] >>}

AllLibraries(tag_list) ==
    {lib \in Libraries(tag_list) : \A i \in 1..Len(lib) : lib[i].monitored}

AllInit ==
    /\ tags \in AllTagLists
    /\ media \in AllLibraries(tags)
    /\ config = BaseConfig
    /\ run_history = << >>
    /\ n_appends = 0
    /\ pc = "idle"
    /\ dry_run = FALSE
    /\ tag_id = None
    /\ ignore_tag_id = None
    /\ quality_profile_id = None
    /\ all_media = << >>
    /\ filtered_media = << >>
    /\ media_to_search = << >>
    /\ pass = 1
    /\ search_i = 0
    /\ calls = << >>
    /\ result = NoResult
    /\ media_at_start = media
    /\ history_view = << >>
    /\ view_limit = NoView
    /\ self_app_type = ""
    /\ media_with_tag = << >>
    /\ sections \in SectionLists
    /\ section_i = 0
    /\ all_pc = "idle"
    /\ all_dry_run = FALSE
    /\ total_searched = 0
    /\ all_items = << >>
    /\ results = << >>
    /\ in_flight = [t \in Triggers |-> NotInFlight]
    /\ searched = << >>
    /\ SchedInit

\* Lines 318-334: run_all_applications(dry_run) is called.
AllStart ==
    /\ all_pc = "idle"
    /\ all_pc' = "loop"
    /\ all_dry_run' \in BOOLEAN
    /\ total_searched' = 0
    /\ all_items' = << >>
    /\ results' = << >>
    /\ UNCHANGED << service, config, histvars, run, view, sections,
                    section_i, conc, sched >>

\* Lines 336-337: the loop takes the next section, and passes it by when
\* it is an excluded one.
NextSection ==
    /\ all_pc = "loop"
    /\ section_i < Len(sections)
    /\ LET section == sections[section_i + 1]
       IN  IF section.app_name \in excluded_sections
           THEN /\ section_i' = section_i + 1
                /\ UNCHANGED << service, config, all_pc >>
           ELSE /\ config' = section
                /\ tags' \in AllTagLists
                /\ media' \in AllLibraries(tags')
                /\ all_pc' = "call"
                /\ UNCHANGED section_i
    /\ UNCHANGED << histvars, run, view, sections, all_dry_run,
                    total_searched, all_items, results, conc, sched >>

\* Line 339: run_application(section, dry_run=dry_run) is called.
CallRunApplication ==
    /\ all_pc = "call"
    /\ Begin(all_dry_run)
    /\ all_pc' = "running"
    /\ UNCHANGED << sections, section_i, all_dry_run, total_searched,
                    all_items, results, conc, sched >>

total_of_last(total, run_result) == run_result.searched_count

\* Line 340.
total_after(total, run_result) == total + run_result.searched_count

PropagateFailure(ended) == IF ended = "raised" THEN "raised" ELSE "loop"

\* Lines 338 and 347: the loop goes on whether the run returned or raised
\* ("except Exception" catches what it raised).
AfterRun(ended) == "loop"

\* Lines 340-353: the run returned, or raised; its entry is appended.
Collect ==
    /\ all_pc = "running"
    /\ pc \in {"done", "raised"}
    /\ IF pc = "done"
       THEN /\ total_searched' = total_after(total_searched, result)
            /\ all_items' = all_items \o result.items
            /\ results' = Append(results,
                    [application |-> config.app_name, success |-> TRUE,
                     searched_count |-> result.searched_count,
                     items |-> result.items])
       ELSE /\ results' = Append(results,
                    [application |-> config.app_name, success |-> FALSE,
                     error |-> result.error])
            /\ UNCHANGED << total_searched, all_items >>
    /\ all_pc' = AfterRun(pc)
    /\ section_i' = section_i + 1
    /\ pc' = "idle"
    /\ UNCHANGED << service, config, histvars, dry_run, locals, calls,
                    result, media_at_start, self_app_type, media_with_tag,
                    view, sections, all_dry_run, conc, sched >>

\* Line 355: the loop is over.
AllReturn ==
    /\ all_pc = "loop"
    /\ section_i = Len(sections)
    /\ all_pc' = "returned"
    /\ UNCHANGED << service, config, histvars, run, view, sections,
                    section_i, all_dry_run, total_searched, all_items,
                    results, conc, sched >>

AllNext ==
    \/ AllStart
    \/ NextSection
    \/ CallRunApplication
    \/ GetApiVersion
    \/ GetTagId
    \/ CreateTag
    \/ GetIgnoreTagId
    \/ GetQualityProfileId
    \/ GetMedia
    \/ RemoveMediaTag
    \/ SearchMedia
    \/ AddMediaTag
    \/ SendNotifications
    \/ Collect
    \/ AllReturn

SpecAll == AllInit /\ [][AllNext]_vars

(***************************************************************************)
(* The two ways a run starts: the scheduler's job, which calls             *)
(* run_all_applications on its own event loop in the scheduler's worker    *)
(* thread (app/scheduler.py 44-56), and a request to POST /run or          *)
(* POST /run/{app_name}, which awaits the run on the server's event loop   *)
(* (app/routes/api.py 177-226).  Neither takes a lock or looks for a run   *)
(* in progress.  Each run is the pipeline of one radarr application whose  *)
(* remote calls succeed, a step per call that changes or reads the         *)
(* library.                                                                *)
(***************************************************************************)

ConcInit ==
    /\ tags = << [id |-> 1, label |-> "done"] >>
    /\ media \in AllLibraries(tags)
    /\ config \in {BaseConfig, [BaseConfig EXCEPT !.Count = "Max"]}
    /\ run_history = << >>
    /\ n_appends = 0
    /\ pc = "idle"
    /\ dry_run = FALSE
    /\ tag_id = 1
    /\ ignore_tag_id = None
    /\ quality_profile_id = None
    /\ all_media = << >>
    /\ filtered_media = << >>
    /\ media_to_search = << >>
    /\ pass = 1
    /\ search_i = 0
    /\ calls = << >>
    /\ result = NoResult
    /\ media_at_start = media
    /\ history_view = << >>
    /\ view_limit = NoView
    /\ self_app_type = "radarr"
    /\ media_with_tag = << >>
    /\ OuterInit

\* The variables a run in flight leaves alone.
ConcBystanders == << tags, config, histvars, run, view, all_vars, sched >>

\* scheduler.py 44-56 (the job fires; a job has one instance at a time) and
\* api.py 177-226 (a request arrives): the run starts, whatever the other
\* trigger's run is doing.
Trigger(t) ==
    /\ in_flight[t].pc = "idle"
    /\ in_flight' = [in_flight EXCEPT ![t].pc = "get_media"]
    /\ UNCHANGED << media, searched, ConcBystanders >>

\* runner.py 121-201: the run fetches the library, filters it and selects.
ConcGetMedia(t) ==
    /\ in_flight[t].pc = "get_media"
    /\ LET filtered == FilterRun(media, FALSE)
       IN  IF filtered = << >>
           THEN in_flight' = [in_flight EXCEPT ![t] = NotInFlight]
           ELSE \E selected \in Select(config.Count, filtered) :
                    in_flight' = [in_flight EXCEPT ![t] =
                        [pc |-> "search_media", media_to_search |-> selected]]
    /\ UNCHANGED << media, searched, ConcBystanders >>

\* runner.py 221: the run's search command reaches the service.
ConcSearchMedia(t) ==
    /\ in_flight[t].pc = "search_media"
    /\ searched' = Append(searched,
            [by |-> t, ids |-> Ids(in_flight[t].media_to_search)])
    /\ in_flight' = [in_flight EXCEPT ![t].pc = "add_media_tag"]
    /\ UNCHANGED << media, ConcBystanders >>

\* runner.py 224-233: the run tags what it searched, and ends.
ConcAddMediaTag(t) ==
    /\ in_flight[t].pc = "add_media_tag"
    /\ media' = ApplyTags(media, Ids(in_flight[t].media_to_search),
                          tag_id, "add")
    /\ in_flight' = [in_flight EXCEPT ![t] = NotInFlight]
    /\ UNCHANGED << searched, ConcBystanders >>

ConcNext ==
    \E t \in Triggers :
        \/ Trigger(t)
        \/ ConcGetMedia(t)
        \/ ConcSearchMedia(t)
        \/ ConcAddMediaTag(t)

SpecConc == ConcInit /\ [][ConcNext]_vars

(***************************************************************************)
(* The scheduler (app/scheduler.py): the BackgroundScheduler, seen through *)
(* the calls the module makes on it (get_jobs, remove_all_jobs, add_job,   *)
(* get_job), configure_scheduler, get_scheduler_status and the listener of *)
(* the job's runs.  The scheduler is started before it is first configured *)
(* (app/main.py 31-32).                                                    *)
(***************************************************************************)

\* The intervals configure_scheduler is called with.
IntervalHours == {1, 6, 24}

remove_no_jobs(store) == store

\* scheduler.remove_all_jobs()
remove_all_jobs(store) == << >>

\* scheduler.add_job(..., id=job.id, replace_existing=True): the job takes
\* the place of the job with its id when there is one.
add_job(store, job) ==
    IF \E i \in 1..Len(store) : store[i].id = job.id
    THEN [i \in 1..Len(store) |->
            IF store[i].id = job.id THEN job ELSE store[i]]
    ELSE Append(store, job)

\* scheduler.get_job(job_id): the job, as a list of one, or none.
get_job(store, job_id) == SelectSeq(store, LAMBDA job : job.id = job_id)

\* Lines 59-90, as what the call makes of the scheduler's jobs.
configure_scheduler(store, enabled, interval_hours) ==
    LET cleared == remove_all_jobs(store)
    IN  IF enabled
        THEN add_job(cleared, [id |-> "pristinarr_main",
                               interval_hours |-> interval_hours])
        ELSE cleared

\* The variables the scheduler module leaves alone.
SchedBystanders == << service, config, histvars, run, view, all_vars, conc >>

\* configure_scheduler(enabled, interval_hours)
ConfigureScheduler ==
    /\ n_configured < MaxConfigured
    /\ \E enabled \in BOOLEAN, interval_hours \in IntervalHours :
        /\ jobs' = configure_scheduler(jobs, enabled, interval_hours)
        /\ last_configured' = << [enabled |-> enabled,
                                  interval_hours |-> interval_hours] >>
    /\ n_configured' = n_configured + 1
    /\ UNCHANGED << _last_run_success, scheduler_status, SchedBystanders >>

\* Lines 23-37 and 44-56: the job runs, and the listener records whether
\* it raised; an interval job stays scheduled.
JobRuns ==
    /\ jobs # << >>
    /\ _last_run_success' \in {"True", "False"}
    /\ UNCHANGED << jobs, last_configured, n_configured, scheduler_status,
                    SchedBystanders >>

\* Lines 93-109: get_scheduler_status()
GetSchedulerStatus ==
    /\ scheduler_status' =
            << [running |-> TRUE,
                enabled |-> get_job(jobs, "pristinarr_main") # << >>,
                last_run_success |-> _last_run_success] >>
    /\ UNCHANGED << jobs, last_configured, n_configured, _last_run_success,
                    SchedBystanders >>

SchedNext ==
    \/ ConfigureScheduler
    \/ JobRuns
    \/ GetSchedulerStatus

\* The module as it is imported: no run has started, the history is empty.
SchedulerInit == HistInit

SpecSched == SchedulerInit /\ [][SchedNext]_vars

(***************************************************************************)
(* The claims.                                                             *)
(***************************************************************************)

CallsOf(op) == SelectSeq(calls, LAMBDA c : c.op = op)
NumCalls(op) == Len(CallsOf(op))
LastRecord == run_history[Len(run_history)]

\* C1: a run that fails on the TagName/IgnoreTag collision has issued no
\* mutating remote call (no tag creation, bulk edit or search command)
\* before failing, whatever the service's tag list was.
C1_CollisionBeforeAnyMutation ==
    (pc = "raised" /\ result.error = "tag_collision")
        => \A i \in 1..Len(calls) :
              calls[i].op \notin {"POST_tag", "PUT_remove", "PUT_add", "POST_command"}

\* C2: a dry run issues no search command, no bulk tag add and no bulk tag
\* remove, and leaves every item's tags as they were when it started.
C2_DryRunIssuesNoMutation ==
    dry_run =>
        /\ NumCalls("POST_command") = 0
        /\ NumCalls("PUT_add") = 0
        /\ NumCalls("PUT_remove") = 0
        /\ \A i \in 1..Len(media) : media[i].tags = media_at_start[i].tags

\* C3: _send_notifications is never invoked by a run with dry_run = true.
C3_NoNotificationOnDryRun ==
    dry_run => NumCalls("send_notifications") = 0

\* C4: a run that ended in failure (of a configured section) has appended
\* exactly one record, with success = false.
C4_FailureIsRecorded ==
    (pc = "raised" /\ result.error # "not_configured")
        => /\ NumCalls("add_run_history") = 1
           /\ run_history # << >>
           /\ LastRecord.success = FALSE

\* C5: no run appends more than one record, and a run that returned has
\* appended exactly one, with success = true and the searched_count it
\* returned.
C5_OneRecordPerReturn ==
    /\ NumCalls("add_run_history") <= 1
    /\ pc = "done" =>
        /\ result.status = "returned"
        /\ NumCalls("add_run_history") = 1
        /\ run_history # << >>
        /\ LastRecord.success = TRUE
        /\ LastRecord.searched_count = result.searched_count
        /\ LastRecord.application = config.app_name

C5_Witness ==
    /\ pc = "done"
    /\ ~dry_run
    /\ result.searched_count = 2
    /\ Len(run_history) = 2

\* C6: after n appends the history holds the records numbered
\* max(1, n - 99) .. n in append order, so never more than 100, and
\* get_run_history(1000) returns all of them, the most recent first; after
\* 105 appends it returns exactly 100 records.
C6_BoundedHistory ==
    LET size == Len(run_history)
        all == get_run_history(1000)
    IN  /\ size = Min(n_appends, HistoryCap)
        /\ \A i \in 1..size :
              run_history[i].searched_count = n_appends - size + i
        /\ Len(all) = size
        /\ \A i \in 1..Len(all) : all[i].searched_count = n_appends + 1 - i
        /\ (n_appends = 105 => Len(all) = 100)

C6_Witness ==
    /\ n_appends = 105
    /\ Len(run_history) = 100
    /\ run_history[1].searched_count = 6
    /\ view_limit = 1000
    /\ Len(history_view) = 100
    /\ history_view[1].searched_count = 105

\* C7: get_run_history(L) returns exactly the min(L, size) most recent
\* records, the most recent first, for every limit L >= 0.
C7_LimitCapsTheResult ==
    [][HistGet =>
        /\ Len(history_view') = Min(view_limit', Len(run_history))
        /\ \A i \in 1..Len(history_view') :
              history_view'[i] = run_history[Len(run_history) + 1 - i]]_vars

\* C8: a run issues at most one bulk tag-remove and at most two media
\* fetches, and after the second filter pass never goes back to the untag.
C8_SingleRetry ==
    /\ NumCalls("PUT_remove") <= 1
    /\ NumCalls("GET_media") <= 2
    /\ pass \in {1, 2}
    /\ (pass = 2 => pc # "remove_media_tag")

C8_Witness ==
    /\ pc = "done"
    /\ pass = 2
    /\ NumCalls("PUT_remove") = 1
    /\ NumCalls("GET_media") = 2
    /\ filtered_media = << >>

\* The monitored, status and quality-profile checks of the run's filter.
PassesBaseFilters(item) ==
    /\ item.monitored = monitored
    /\ (config.Status # "" => Lower(item.status) = Lower(config.Status))
    /\ (quality_profile_id # None => item.qualityProfileId = quality_profile_id)

Candidates ==
    {i \in 1..Len(media_at_start) :
        /\ PassesBaseFilters(media_at_start[i])
        /\ (ignore_tag_id # None => ignore_tag_id \notin media_at_start[i].tags)}

\* C9: in unattended mode a non-dry run that returned, from a library with
\* at least one item passing the monitored, status and quality-profile
\* filters and not carrying the ignore tag, has searched at least one item;
\* when every such item carried the processed tag it has removed the tag
\* from the tagged items, fetched again and searched from them.
C9_UnattendedKeepsCycling ==
    (pc = "done" /\ ~dry_run /\ unattended /\ Candidates # {}) =>
        /\ result.searched_count >= 1
        /\ NumCalls("POST_command") >= 1
        /\ (\A i \in Candidates : tag_id \in media_at_start[i].tags) =>
            /\ NumCalls("PUT_remove") = 1
            /\ NumCalls("GET_media") = 2
            /\ \A i \in Candidates :
                  media_at_start[i].id \in Range(CallsOf("PUT_remove")[1].ids)
            /\ \A j \in 1..Len(media_to_search) :
                  tag_id \in media_at_start[media_to_search[j].id].tags

C9_Witness ==
    /\ pc = "done"
    /\ ~dry_run
    /\ unattended
    /\ Len(run_history) = 2
    /\ run_history[1].message = "searched"
    /\ NumCalls("PUT_remove") = 1
    /\ result.searched_count >= 1

\* C10: a non-dry run whose eligible set is still empty after the optional
\* retry returns searched_count 0 and no items, having appended one
\* successful record with count 0 and invoked the notification dispatch
\* with the count-0 description, and having issued no search and no tag-add.
C10_EmptyResultExit ==
    (pc = "done" /\ ~dry_run /\ filtered_media = << >>) =>
        /\ result = Returned(0, << >>)
        /\ NumCalls("add_run_history") = 1
        /\ LastRecord = RunRecord(config.app_name, TRUE, 0, "no_media_left")
        /\ NumCalls("send_notifications") = 1
        /\ CallsOf("send_notifications")[1].arg.text = "no_media_left"
        /\ NumCalls("POST_command") = 0
        /\ NumCalls("PUT_add") = 0

C10_Witness ==
    /\ pc = "done"
    /\ ~dry_run
    /\ filtered_media = << >>
    /\ NumCalls("PUT_remove") = 1
    /\ NumCalls("send_notifications") = 1

\* The ids of the selected items, in selection order.
SelectedIds == [j \in 1..Len(media_to_search) |-> media_to_search[j].id]

Mutating == {"POST_tag", "PUT_remove", "PUT_add", "POST_command"}

\* C12: a tag-add is issued only by a non-dry run, after at least one search
\* command and only after every search command succeeded and covered the
\* selected items, it carries exactly the selected ids, and no search
\* follows it; a failed tag-add is the run's last call (no compensating
\* call), the run ends in failure and has appended no record.
C12_SearchThenTag ==
    \A i \in 1..Len(calls) :
        calls[i].op = "PUT_add" =>
            /\ ~dry_run
            /\ calls[i].ids = SelectedIds
            /\ \E k \in 1..(i - 1) : calls[k].op = "POST_command"
            /\ \A k \in 1..(i - 1) :
                  calls[k].op = "POST_command" => calls[k].ok
            /\ UNION {Range(calls[k].ids) : k \in
                        {k \in 1..(i - 1) : calls[k].op = "POST_command"}}
                  = Range(SelectedIds)
            /\ \A k \in (i + 1)..Len(calls) : calls[k].op \notin Mutating
            /\ ~calls[i].ok =>
                  /\ i = Len(calls)
                  /\ pc = "raised"
                  /\ result.status = "raised"
                  /\ NumCalls("add_run_history") = 0

C12_Witness ==
    /\ pc = "raised"
    /\ calls # << >>
    /\ calls[Len(calls)].op = "PUT_add"
    /\ ~calls[Len(calls)].ok
    /\ NumCalls("POST_command") = 2

\* C13: once search_media has returned for n >= 1 selected items, it has
\* posted exactly one command, MoviesSearch with movieIds = the list of all
\* n ids, when the kind is radarr, and exactly n commands, the k-th with the
\* kind's command name and its singular id field = the k-th item's id, when
\* the kind is sonarr, lidarr or readarr; before that it has posted a
\* prefix of them, and a failed command is the last one.
C13_SearchCommands ==
    LET posted == CallsOf("POST_command")
        n == Len(media_to_search)
        name == CASE self_app_type = "sonarr" -> "SeriesSearch"
                  [] self_app_type = "lidarr" -> "ArtistSearch"
                  [] self_app_type = "readarr" -> "AuthorSearch"
                  [] OTHER -> "none"
        field == CASE self_app_type = "sonarr" -> "seriesId"
                   [] self_app_type = "lidarr" -> "artistId"
                   [] self_app_type = "readarr" -> "authorId"
                   [] OTHER -> "none"
        returned == pc \in {"add_media_tag", "send_notifications"}
                        \/ NumCalls("PUT_add") > 0
    IN  /\ \A k \in 1..Len(posted) : ~posted[k].ok => k = Len(posted)
        /\ self_app_type = "radarr" =>
              /\ Len(posted) <= 1
              /\ (returned /\ n >= 1) => Len(posted) = 1
              /\ \A k \in 1..Len(posted) :
                    /\ posted[k].arg.name = "MoviesSearch"
                    /\ posted[k].arg.id_field = "movieIds"
                    /\ posted[k].arg.is_list
                    /\ posted[k].arg.value = SelectedIds
        /\ self_app_type \in {"sonarr", "lidarr", "readarr"} =>
              /\ Len(posted) <= n
              /\ (returned /\ n >= 1) => Len(posted) = n
              /\ \A k \in 1..Len(posted) :
                    /\ posted[k].arg.name = name
                    /\ posted[k].arg.id_field = field
                    /\ ~posted[k].arg.is_list
                    /\ posted[k].arg.value = << media_to_search[k].id >>
        /\ (posted # << >>) =>
              self_app_type \in {"radarr", "sonarr", "lidarr", "readarr"}

C13_Witness ==
    /\ pc = "add_media_tag"
    /\ self_app_type = "lidarr"
    /\ Len(media_to_search) = 2
    /\ NumCalls("POST_command") = 2
    /\ CallsOf("POST_command")[2].arg.value = << media_to_search[2].id >>

\* C19: whatever the notification channels do (a sender raises or returns
\* False, the channel id is not a number), a run that reached
\* _send_notifications returns its result: it never ends in failure, its
\* one record stays the successful one appended before the dispatch, and
\* each configured channel is attempted whatever happened to the other.
C19_NotificationFailuresSwallowed ==
    NumCalls("send_notifications") > 0 =>
        LET at == CHOOSE i \in 1..Len(calls) : calls[i].op = "send_notifications"
        IN  /\ pc = "done"
            /\ result = Returned(Len(media_to_search),
                                 [j \in 1..Len(media_to_search) |->
                                    media_to_search[j].id])
            /\ NumCalls("add_run_history") = 1
            /\ calls[at - 1].op = "add_run_history"
            /\ run_history # << >>
            /\ LastRecord.success
            /\ LastRecord.searched_count = result.searched_count
            /\ \A i \in (at + 1)..Len(calls) :
                  /\ calls[i].op \in {"discord", "notifiarr"}
                  /\ LET notif == calls[i].arg.notif
                     IN  /\ notif.discord_webhook # "" =>
                                NumCalls("discord") = 1
                         /\ (notif.notifiarr_webhook # ""
                                /\ notif.notifiarr_channel # "") =>
                                NumCalls("notifiarr") = 1

C19_Witness ==
    /\ pc = "done"
    /\ result.searched_count >= 1
    /\ NumCalls("discord") = 1
    /\ NumCalls("notifiarr") = 1
    /\ CallsOf("discord")[1].arg.outcome = "raised"
    /\ CallsOf("notifiarr")[1].arg.outcome = "bad_channel"
    /\ LastRecord.success

\* C11: the SELECT step returns, for Count 1, 2 or 3, exactly
\* min(Count, len(filtered)) items, pairwise distinct and all of them in the
\* filtered list, and for Count max, Max or MAX the filtered list itself.
C11_SelectBound ==
    pc = "selected" =>
        LET n == Len(filtered_media)
            m == media_to_search
        IN  IF config.Count \in {"max", "Max", "MAX"}
            THEN m = filtered_media
            ELSE LET c == CASE config.Count = "1" -> 1
                            [] config.Count = "2" -> 2
                            [] config.Count = "3" -> 3
                 IN  /\ Len(m) = IF c < n THEN c ELSE n
                     /\ \A i, j \in 1..Len(m) : i # j => m[i] # m[j]
                     /\ \A i \in 1..Len(m) :
                           \E k \in 1..n : m[i] = filtered_media[k]

C11_Witness ==
    /\ pc = "selected"
    /\ config.Count = "3"
    /\ Len(filtered_media) = 2
    /\ Len(media_to_search) = 2
    /\ media_to_search[1] = filtered_media[2]
    /\ media_to_search[2] = filtered_media[1]

\* C16: whatever the list and the criteria, no item of the normal-mode
\* result carries the processed tag and every item of the probe-mode
\* result carries it, so the two results have no item in common.
C16_ComplementaryPartition ==
    /\ \A i \in 1..Len(filtered_media) : tag_id \notin filtered_media[i].tags
    /\ \A i \in 1..Len(media_with_tag) : tag_id \in media_with_tag[i].tags
    /\ \A i \in 1..Len(filtered_media), j \in 1..Len(media_with_tag) :
          filtered_media[i] # media_with_tag[j]

C16_Witness ==
    /\ pc = "probed"
    /\ filtered_media # << >>
    /\ media_with_tag # << >>
    /\ ignore_tag_id # None
    /\ quality_profile_id # None

\* r is l with some of its items left out.
Subsequence(r, l) ==
    \E f \in [1..Len(r) -> 1..Len(l)] :
        /\ \A i, j \in 1..Len(r) : i < j => f[i] < f[j]
        /\ \A i \in 1..Len(r) : r[i] = l[f[i]]

C18_UnknownKindIsMovieKind ==
    self_app_type \notin {"radarr", "sonarr", "lidarr", "readarr"} =>
        /\ \A i \in 1..Len(calls) :
              /\ calls[i].op = "GET_media" => calls[i].arg = "movie"
              /\ calls[i].op \in {"PUT_add", "PUT_remove"} =>
                    /\ calls[i].arg.path = "movie/editor"
                    /\ calls[i].arg.id_field = "movieIds"
                    /\ calls[i].arg.value = SelectedIds
              /\ calls[i].op = "POST_command" =>
                    /\ calls[i].arg.name = "MoviesSearch"
                    /\ calls[i].arg.id_field = "movieIds"
                    /\ calls[i].arg.is_list
                    /\ calls[i].arg.value = SelectedIds
        /\ NumCalls("POST_command") <= 1

\* The application sections among the first k sections, in file order.
ApplicationsAmong(k) ==
    SelectSeq(SubSeq(sections, 1, k), LAMBDA section :
        section.app_name \notin {"Notifications", "General", "Scheduler"})

\* C14: run_all_applications never raises; the application it runs is the
\* next section of the file, never a reserved one; once the loop has passed
\* k sections the results hold one entry per application section among
\* them, in file order, so one per application section when it returns;
\* and a run that raised adds a success = false entry with its error, after
\* which the loop goes on.
C14_EveryApplicationOnce ==
    /\ [](/\ all_pc \in {"idle", "loop", "call", "running", "returned"}
          /\ LET apps == ApplicationsAmong(section_i)
             IN  /\ Len(results) = Len(apps)
                 /\ \A k \in 1..Len(apps) :
                       results[k].application = apps[k].app_name
          /\ all_pc \in {"call", "running"} =>
                /\ section_i < Len(sections)
                /\ config = sections[section_i + 1]
                /\ config.app_name \notin {"Notifications", "General", "Scheduler"}
          /\ all_pc = "returned" => section_i = Len(sections))
    /\ [][Collect =>
            /\ Len(results') = Len(results) + 1
            /\ results'[Len(results')].success = (pc = "done")
            /\ pc = "raised" => results'[Len(results')].error = result.error
            /\ all_pc' = "loop"]_vars

C14_Witness ==
    /\ all_pc = "returned"
    /\ Len(sections) = 3
    /\ Len(results) = 2
    /\ ~results[1].success
    /\ results[1].error = "api_error"
    /\ results[2].success
    /\ results[2].searched_count >= 1

RECURSIVE SearchedBySuccesses(_)
SearchedBySuccesses(entries) ==
    IF entries = << >> THEN 0
    ELSE (IF entries[1].success THEN entries[1].searched_count ELSE 0)
            + SearchedBySuccesses(Tail(entries))

RECURSIVE ItemsOfSuccesses(_)
ItemsOfSuccesses(entries) ==
    IF entries = << >> THEN << >>
    ELSE (IF entries[1].success THEN entries[1].items ELSE << >>)
            \o ItemsOfSuccesses(Tail(entries))

\* C15: between two runs and when run_all_applications returns,
\* total_searched is the sum of searched_count over the success = true
\* entries of the results, which is also the sum over the successful
\* records the runs appended to the history, and items is the
\* concatenation of those entries' items in run order.
C15_TotalsOfSuccessfulRuns ==
    all_pc \in {"loop", "call", "returned"} =>
        /\ total_searched = SearchedBySuccesses(results)
        /\ total_searched = SearchedBySuccesses(run_history)
        /\ all_items = ItemsOfSuccesses(results)
        /\ Len(all_items) = total_searched

C15_Witness ==
    /\ all_pc = "returned"
    /\ ~all_dry_run
    /\ Len(results) = 3
    /\ results[1].success
    /\ ~results[2].success
    /\ results[3].success
    /\ total_searched = 4
    /\ Len(all_items) = 4

\* C20: the scheduler's run and a run requested through the API are never
\* in flight together, and no item is searched twice (each search is
\* followed by the item's tagging before another run selects).
C20_RunsAreSerialized ==
    /\ ~(in_flight["scheduler"].pc # "idle" /\ in_flight["api"].pc # "idle")
    /\ \A i, j \in 1..Len(searched) :
          i # j => Range(searched[i].ids) \cap Range(searched[j].ids) = {}

\* C21: a run issues a bulk tag-remove only when the section is unattended,
\* the normal-mode filter of the media it fetched first was empty and the
\* probe-mode filter of the same media was not; the call carries exactly the
\* ids of the probe result; once it succeeded the next call is a media
\* fetch, and after that fetch the eligible set is the normal-mode filter of
\* the fresh media.  An item loses the processed tag only through such a
\* call that names it.
C21_UntagOnlyWhenExhausted ==
    /\ \A i \in 1..Len(calls) :
          calls[i].op = "PUT_remove" =>
              /\ unattended
              /\ i > 1
              /\ calls[i - 1].op = "GET_media"
              /\ calls[i - 1].ok
              /\ \A k \in 1..(i - 2) : calls[k].op # "GET_media"
              /\ FilterRun(media_at_start, FALSE) = << >>
              /\ FilterRun(media_at_start, TRUE) # << >>
              /\ calls[i].ids = Ids(FilterRun(media_at_start, TRUE))
              /\ calls[i].arg.applyTags = "remove"
              /\ calls[i].arg.tags = << tag_id >>
              /\ (calls[i].ok /\ i = Len(calls)) =>
                    pc = "get_media" /\ pass = 2
              /\ (calls[i].ok /\ i < Len(calls)) =>
                    /\ calls[i + 1].op = "GET_media"
                    /\ calls[i + 1].ok =>
                          /\ \A k \in 1..Len(all_media) :
                                all_media[k].tags =
                                    IF all_media[k].id \in Range(calls[i].ids)
                                    THEN media_at_start[k].tags \ {tag_id}
                                    ELSE media_at_start[k].tags
                          /\ filtered_media = FilterRun(all_media, FALSE)
              /\ ~calls[i].ok => i = Len(calls) /\ pc = "raised"
    /\ \A k \in 1..Len(media) :
          (tag_id \in media_at_start[k].tags /\ tag_id \notin media[k].tags) =>
              \E i \in 1..Len(calls) :
                  /\ calls[i].op = "PUT_remove"
                  /\ calls[i].ok
                  /\ media[k].id \in Range(calls[i].ids)

C21_Witness ==
    /\ pc = "done"
    /\ NumCalls("PUT_remove") = 1
    /\ CallsOf("PUT_remove")[1].ok
    /\ Len(CallsOf("PUT_remove")[1].ids) = 1
    /\ NumCalls("GET_media") = 2
    /\ result.searched_count = 1
    /\ \E k \in 1..Len(media) :
          /\ tag_id \in media_at_start[k].tags
          /\ ~media_at_start[k].monitored
          /\ tag_id \in media[k].tags

\* C22: when a search command of a sonarr, lidarr or readarr run failed, it
\* is the command for some item k of the selected list, the commands posted
\* are exactly those of the items 1..k in list order, every one before it
\* succeeded, it is the run's last call, no tag-add was issued, no selected
\* item carries the processed tag, and the run ended in failure.
C22_SearchAbortsAtFirstFailure ==
    LET posted == CallsOf("POST_command")
        k == Len(posted)
    IN  (/\ self_app_type \in {"sonarr", "lidarr", "readarr"}
         /\ \E j \in 1..k : ~posted[j].ok) =>
            /\ ~posted[k].ok
            /\ \A j \in 1..(k - 1) : posted[j].ok
            /\ k <= Len(media_to_search)
            /\ \A j \in 1..k : posted[j].ids = << media_to_search[j].id >>
            /\ calls[Len(calls)] = posted[k]
            /\ NumCalls("PUT_add") = 0
            /\ \A m \in 1..Len(media) :
                  media[m].id \in Range(SelectedIds) =>
                      tag_id \notin media[m].tags
            /\ pc = "raised"
            /\ result.status = "raised"

C22_Witness ==
    /\ self_app_type = "sonarr"
    /\ pc = "raised"
    /\ Len(media_to_search) = 2
    /\ NumCalls("POST_command") = 2
    /\ CallsOf("POST_command")[1].ok
    /\ ~CallsOf("POST_command")[2].ok
    /\ calls[Len(calls)].op = "POST_command"

\* C23: the normal-mode result holds exactly the items of the list whose
\* monitored flag is the requested one, that do not carry the processed tag,
\* whose status is the requested one ignoring case (when one is requested),
\* whose quality profile is the requested one (when one is requested) and
\* that do not carry the ignore tag (when one is given); the probe-mode
\* result holds exactly the items that pass the monitored, status and
\* quality-profile checks and carry the processed tag, whether or not they
\* carry the ignore tag.
C23_FilterPredicate ==
    /\ pc \in {"filtered", "probed", "again"} =>
          \A k \in 1..Len(all_media) :
              LET item == all_media[k]
              IN  (item \in Range(filtered_media)) <=>
                      /\ item.monitored = (Lower(config.Monitored) = "true")
                      /\ tag_id \notin item.tags
                      /\ (config.Status # "" =>
                            Lower(item.status) = Lower(config.Status))
                      /\ (quality_profile_id # None =>
                            item.qualityProfileId = quality_profile_id)
                      /\ (ignore_tag_id # None => ignore_tag_id \notin item.tags)
    /\ pc \in {"probed", "again"} =>
          \A k \in 1..Len(all_media) :
              LET item == all_media[k]
              IN  (item \in Range(media_with_tag)) <=>
                      /\ item.monitored = (Lower(config.Monitored) = "true")
                      /\ tag_id \in item.tags
                      /\ (config.Status # "" =>
                            Lower(item.status) = Lower(config.Status))
                      /\ (quality_profile_id # None =>
                            item.qualityProfileId = quality_profile_id)

C23_Witness ==
    /\ pc = "probed"
    /\ tag_id = 1
    /\ ignore_tag_id = 2
    /\ config.Status = "Released"
    /\ quality_profile_id = 1
    /\ Len(all_media) = 2
    /\ all_media[1].tags = {1, 2}
    /\ all_media[2].tags = {2}
    /\ media_with_tag = << all_media[1] >>
    /\ filtered_media = << >>

\* The calls a run makes to the media service.
RemoteOps == {"GET_api", "GET_tag", "POST_tag", "GET_qualityprofile",
              "GET_media", "PUT_remove", "PUT_add", "POST_command"}

\* C24: a failed call to the media service is the last call of its run: the
\* run makes no call to the service after it (no retry, no later step), and
\* it has ended by raising the call's error.
C24_NoCallAfterFailure ==
    \A i \in 1..Len(calls) :
        (calls[i].op \in RemoteOps /\ ~calls[i].ok) =>
            /\ \A k \in (i + 1)..Len(calls) : calls[k].op \notin RemoteOps
            /\ i = Len(calls)
            /\ pc = "raised"
            /\ result = Raised("api_error")

C24_Witness ==
    /\ pc = "raised"
    /\ pass = 2
    /\ Len(calls) >= 2
    /\ calls[Len(calls)].op = "GET_media"
    /\ ~calls[Len(calls)].ok
    /\ calls[Len(calls) - 1].op = "PUT_remove"
    /\ calls[Len(calls) - 1].ok

\* The sections of the model that validation rejects: a 31-character API
\* key, Count 0, and a name that holds no application type.
RejectedSection ==
    config.ApiKeyLen = 31 \/ config.Count = "0" \/ config.app_name = "Plex"

\* C25: a run of a section that is missing or that validation rejects ends
\* at once by raising, with no call to the media service and no
\* notification; for a rejected section it appends exactly one record, with
\* success = false and count 0, and for a missing section it leaves the
\* history as it was.
C25_InvalidConfigTouchesNothing ==
    /\ []((pc # "idle" /\ (~config.present \/ RejectedSection)) =>
            /\ pc = "raised"
            /\ result.status = "raised"
            /\ \A i \in 1..Len(calls) :
                  calls[i].op \notin
                      RemoteOps \cup {"send_notifications", "discord", "notifiarr"}
            /\ media = media_at_start
            /\ ~config.present =>
                  /\ result.error = "not_configured"
                  /\ calls = << >>
                  /\ run_history = << >>
            /\ config.present =>
                  /\ result.error = "config_errors"
                  /\ NumCalls("add_run_history") = 1
                  /\ Len(calls) = 1
                  /\ run_history # << >>
                  /\ ~LastRecord.success
                  /\ LastRecord.searched_count = 0
                  /\ LastRecord.application = config.app_name)
    /\ [][(StartRun /\ (~config.present \/ RejectedSection)) =>
            /\ tags' = tags
            /\ media' = media
            /\ Len(run_history') =
                  Len(run_history) + (IF config.present THEN 1 ELSE 0)
            /\ SubSeq(run_history', 1, Len(run_history)) = run_history]_vars

C25_Witness ==
    /\ pc = "raised"
    /\ config.present
    /\ config.ApiKeyLen = 31
    /\ result.error = "config_errors"
    /\ Len(run_history) = 2
    /\ ~run_history[1].success
    /\ ~run_history[2].success
    /\ Len(calls) = 1

\* The positions of the tags whose label is the name ignoring case.
Matching(tag_list, name) ==
    {i \in 1..Len(tag_list) : Lower(tag_list[i].label) = Lower(name)}

\* C26: the tag-creation POST is issued only when no label of the tag list
\* equals the requested name ignoring case, and at most once; a lookup that
\* finds matching labels returns the id of the first of them in list order
\* and leads to no creation; a successful creation appends the one new tag
\* and returns its id; and get_tag_id returns None exactly when no label
\* matches.
C26_TagLookupThenCreate ==
    /\ [](/\ NumCalls("POST_tag") <= 1
          /\ pc = "create_tag" => tag_id = None)
    /\ [][(GetTagId /\ pc' # "raised") =>
            LET hits == Matching(tags, config.TagName)
            IN  /\ tags' = tags
                /\ (hits = {}) <=> (pc' = "create_tag")
                /\ (hits = {}) <=> (tag_id' = None)
                /\ hits # {} =>
                      \E i \in hits :
                          /\ \A j \in hits : i <= j
                          /\ tag_id' = tags[i].id]_vars
    /\ [][CreateTag =>
            /\ Matching(tags, config.TagName) = {}
            /\ NumCalls("POST_tag") = 0
            /\ pc' # "raised" =>
                  /\ Len(tags') = Len(tags) + 1
                  /\ SubSeq(tags', 1, Len(tags)) = tags
                  /\ tags'[Len(tags')].label = config.TagName
                  /\ tag_id' = tags'[Len(tags')].id
                  /\ \A i \in 1..Len(tags) : tags[i].id # tag_id'
            /\ pc' = "raised" => tags' = tags]_vars
    /\ [][(GetIgnoreTagId /\ calls'[Len(calls')].ok) =>
            LET hits == Matching(tags, config.IgnoreTag)
            IN  /\ tags' = tags
                /\ (hits = {}) <=> (ignore_tag_id' = None)
                /\ hits # {} =>
                      \E i \in hits :
                          /\ \A j \in hits : i <= j
                          /\ ignore_tag_id' = tags[i].id]_vars

C26_Witness ==
    /\ pc = "get_ignore_tag_id"
    /\ Len(tags) = 3
    /\ tags[1].label = "skip"
    /\ tags[2].label = "DONE"
    /\ tags[3].label = "Done"
    /\ tags[2].id = 2
    /\ tags[3].id = 1
    /\ config.TagName = "done"
    /\ tag_id = 2
    /\ NumCalls("POST_tag") = 0

\* C27: search_media, add_media_tag and remove_media_tag given an empty
\* list issue no call and leave the library as it was; given a non-empty
\* list, add_media_tag and remove_media_tag each issue exactly one PUT, to
\* the kind's editor endpoint, carrying the ids of all the items in list
\* order under the kind's id field, tags = [tag_id] and applyTags add,
\* respectively remove.
C27_BulkEditIsOnePut ==
    LET endpoint == CASE self_app_type = "sonarr" -> "series/editor"
                      [] self_app_type = "lidarr" -> "artist/editor"
                      [] self_app_type = "readarr" -> "author/editor"
                      [] OTHER -> "movie/editor"
        field == CASE self_app_type = "sonarr" -> "seriesIds"
                   [] self_app_type = "lidarr" -> "artistIds"
                   [] self_app_type = "readarr" -> "authorIds"
                   [] OTHER -> "movieIds"
        added == pc \in {"remove_media_tag", "closed"}
                    \/ NumCalls("PUT_remove") > 0
        removed == pc = "closed"
    IN  /\ media_to_search = << >> =>
              /\ \A i \in 1..Len(calls) : calls[i].op = "GET_media"
              /\ media = media_at_start
        /\ media_to_search # << >> =>
              /\ NumCalls("PUT_add") <= 1
              /\ NumCalls("PUT_remove") <= 1
              /\ added => NumCalls("PUT_add") = 1 /\ CallsOf("PUT_add")[1].ok
              /\ removed =>
                    NumCalls("PUT_remove") = 1 /\ CallsOf("PUT_remove")[1].ok
        /\ \A i \in 1..Len(calls) :
              calls[i].op \in {"PUT_add", "PUT_remove"} =>
                  /\ calls[i].arg.path = endpoint
                  /\ calls[i].arg.id_field = field
                  /\ calls[i].arg.value = SelectedIds
                  /\ calls[i].arg.value # << >>
                  /\ calls[i].arg.tags = << tag_id >>
                  /\ calls[i].arg.applyTags =
                        (IF calls[i].op = "PUT_add" THEN "add" ELSE "remove")
        /\ pc = "remove_media_tag" =>
              \A k \in 1..Len(media) :
                  media[k].tags = media_at_start[k].tags \cup {tag_id}
        /\ pc = "closed" =>
              \A k \in 1..Len(media) :
                  media[k].tags = media_at_start[k].tags \ {tag_id}

C27_Witness ==
    /\ pc = "closed"
    /\ self_app_type = "readarr"
    /\ Len(media_to_search) = 2
    /\ NumCalls("PUT_add") = 1
    /\ NumCalls("PUT_remove") = 1
    /\ CallsOf("PUT_remove")[1].arg.value = << 1, 2 >>
    /\ Len(calls) = 5

\* The positions of the items of a library that the run's normal-mode
\* filter keeps: they pass the monitored, status and quality-profile
\* checks and carry neither the processed tag nor the ignore tag.
Eligible(library) ==
    {k \in 1..Len(library) :
        /\ PassesBaseFilters(library[k])
        /\ tag_id \notin library[k].tags
        /\ (ignore_tag_id # None => ignore_tag_id \notin library[k].tags)}

RemoteCallsSucceeded ==
    \A i \in 1..Len(calls) : calls[i].op \in RemoteOps => calls[i].ok

\* C28: for a section with Unattended = false, no step of any run takes a
\* tag away from an item; a run selects only items that were eligible, so
\* untagged, when it started; a non-dry run that returned with all its
\* remote calls succeeding has searched each selected item once, has left
\* every one of them tagged, and has shrunk the eligible set by exactly the
\* number it searched; and one that started with an empty eligible set has
\* searched nothing and issued no search and no bulk edit, and no tag
\* creation either when a run returned before it.
C28_NoItemSearchedTwice ==
    /\ [](~unattended =>
            /\ NumCalls("PUT_remove") = 0
            /\ \A j \in 1..Len(media_to_search) :
                  /\ media_to_search[j].id \in
                        {media_at_start[k].id : k \in Eligible(media_at_start)}
                  /\ \A k \in 1..Len(media_at_start) :
                        media_at_start[k].id = media_to_search[j].id =>
                            tag_id \notin media_at_start[k].tags
            /\ \A i, j \in 1..Len(media_to_search) :
                  i # j => media_to_search[i].id # media_to_search[j].id
            /\ (pc = "done" /\ ~dry_run /\ RemoteCallsSucceeded) =>
                  /\ result.searched_count = Len(media_to_search)
                  /\ UNION {Range(c.ids) : c \in Range(CallsOf("POST_command"))}
                        = Range(SelectedIds)
                  /\ \A k \in 1..Len(media) :
                        media[k].id \in Range(SelectedIds) =>
                            tag_id \in media[k].tags
                  /\ Eligible(media) =
                        {k \in Eligible(media_at_start) :
                            media_at_start[k].id \notin Range(SelectedIds)}
                  /\ Cardinality(Eligible(media)) =
                        Cardinality(Eligible(media_at_start))
                            - result.searched_count
                  /\ Eligible(media_at_start) = {} =>
                        /\ result.searched_count = 0
                        /\ NumCalls("POST_command") = 0
                        /\ NumCalls("PUT_add") = 0
                        /\ Len(run_history) >= 2 => NumCalls("POST_tag") = 0)
    /\ [][~unattended =>
            /\ Len(media') = Len(media)
            /\ \A k \in 1..Len(media) : media[k].tags \subseteq media'[k].tags]_vars

C28_Witness ==
    /\ pc = "done"
    /\ ~unattended
    /\ ~dry_run
    /\ RemoteCallsSucceeded
    /\ Len(run_history) = 2
    /\ run_history[1].message = "searched"
    /\ run_history[1].searched_count = 2
    /\ run_history[2].message = "no_media_left"
    /\ result.searched_count = 0
    /\ Eligible(media_at_start) = {}
    /\ \A k \in 1..Len(media) : tag_id \in media[k].tags

\* C29: with the appends, the length tests and the evictions of two
\* concurrent add_run_history calls interleaved in any way, the history
\* holds at most 100 records whenever no call is in progress, and at every
\* moment it holds exactly the most recently appended records, in append
\* order: a record leaves it only as the oldest one.
C29_ConcurrentAppendsKeepTheCap ==
    /\ (\A t \in Triggers : in_flight[t].pc = "idle") =>
          Len(run_history) <= HistoryCap
    /\ Len(run_history) <= n_appends
    /\ \A i \in 1..Len(run_history) :
          run_history[i].searched_count = n_appends - Len(run_history) + i
    /\ \A t \in Triggers :
          in_flight[t].pc = "evict" => Len(run_history) >= HistoryCap

C29_Witness ==
    /\ \A t \in Triggers : in_flight[t].pc = "idle"
    /\ n_appends = 101
    /\ Len(run_history) = 99
    /\ run_history[1].searched_count = 3
    /\ run_history[99].searched_count = 101

\* C30: when no ignore tag is given, the normal-mode and the probe-mode
\* results of the same list with the same monitored, status and
\* quality-profile arguments split the items that pass those three checks:
\* every such item is in exactly one of the two results, and neither result
\* holds any other item.
C30_ResultsSplitTheBaseSet ==
    (pc \in {"probed", "again"} /\ ignore_tag_id = None) =>
        LET base == {k \in 1..Len(all_media) : PassesBaseFilters(all_media[k])}
        IN  /\ \A k \in 1..Len(all_media) :
                  LET in_normal == all_media[k] \in Range(filtered_media)
                      in_probe == all_media[k] \in Range(media_with_tag)
                  IN  /\ k \in base => (in_normal /\ ~in_probe)
                                            \/ (in_probe /\ ~in_normal)
                      /\ k \notin base => ~in_normal /\ ~in_probe
            /\ Range(filtered_media) \cup Range(media_with_tag)
                  = {all_media[k] : k \in base}
            /\ Len(filtered_media) + Len(media_with_tag) = Cardinality(base)

C30_Witness ==
    /\ pc = "probed"
    /\ ignore_tag_id = None
    /\ config.Status = "Released"
    /\ quality_profile_id = 1
    /\ Len(all_media) = 2
    /\ filtered_media = << all_media[2] >>
    /\ media_with_tag = << all_media[1] >>
    /\ all_media[2].tags # {}

\* C31: the description of a run's notification is the "no media left"
\* text exactly when the count is 0; it lists the titles of the selected
\* items, all of them in order, exactly when the count is between 1 and 20;
\* and it carries the truncation notice, with no title, exactly when more
\* than 20 items were selected.
C31_DescriptionByCount ==
    \A i \in 1..Len(calls) :
        calls[i].op = "send_notifications" =>
            LET n == Len(media_to_search)
                description == calls[i].arg
            IN  /\ (description.text = "no_media_left") <=> (n = 0)
                /\ (description.text = "search_started") <=> (n >= 1 /\ n <= 20)
                /\ (description.text = "search_started_too_long") <=> (n > 20)
                /\ description.text \in {"no_media_left", "search_started",
                                         "search_started_too_long"}
                /\ description.count = n
                /\ description.text = "search_started" =>
                      description.titles = SelectedIds
                /\ description.text # "search_started" =>
                      description.titles = << >>

C31_Witness ==
    /\ pc = "done"
    /\ Len(media_to_search) = 21
    /\ NumCalls("send_notifications") = 1
    /\ CallsOf("send_notifications")[1].arg.text = "search_started_too_long"
    /\ CallsOf("send_notifications")[1].arg.titles = << >>
    /\ CallsOf("send_notifications")[1].arg.count = 21

\* C32: the scheduler never holds more than one job; after a
\* configure_scheduler call it holds exactly the job pristinarr_main, with
\* the interval of that call, when the call had enabled = true, and no job
\* when it had enabled = false, however many calls came before and whether
\* or not the job has run since; and get_scheduler_status reports enabled
\* exactly when the scheduler holds that job.
C32_OneJobOrNone ==
    /\ [](/\ Len(jobs) <= 1
          /\ last_configured = << >> => jobs = << >>
          /\ last_configured # << >> =>
                IF last_configured[1].enabled
                THEN /\ Len(jobs) = 1
                     /\ jobs[1].id = "pristinarr_main"
                     /\ jobs[1].interval_hours =
                            last_configured[1].interval_hours
                ELSE jobs = << >>)
    /\ [][GetSchedulerStatus =>
            /\ Len(scheduler_status') = 1
            /\ scheduler_status'[1].enabled <=>
                  (\E i \in 1..Len(jobs) : jobs[i].id = "pristinarr_main")
            /\ jobs' = jobs]_vars

C32_Witness ==
    /\ n_configured = 3
    /\ last_configured = << [enabled |-> TRUE, interval_hours |-> 24] >>
    /\ Len(jobs) = 1
    /\ jobs[1].interval_hours = 24
    /\ _last_run_success = "False"
    /\ scheduler_status # << >>
    /\ ~scheduler_status[1].enabled
    /\ scheduler_status[1].last_run_success = "True"

=============================================================================
